---------------------------- MODULE Spec2Model ----------------------------
(***************************************************************************)
(* Verification model of ZanRedisDB's per-shard substrate:                 *)
(*   - the raft log store RocksStorage (raft/rocks_storage.go),            *)
(*   - the etcd master lock EtcdLock (cluster/etcd_master_lock.go).        *)
(***************************************************************************)
EXTENDS Integers, Sequences, FiniteSets, TLC

(***************************************************************************)
(* Bounds of the model.                                                    *)
(***************************************************************************)
\* highest raft index that the callers use
MaxIndex == 2
\* highest raft term that the callers use
MaxTerm == 2
\* longest batch of entries handed to Append
MaxAppend == 2
\* acquire goroutines of one EtcdLock alive at a time (Start is called again
\* only while fewer are running)
MaxLoops == 1
\* Start calls that take effect, per EtcdLock
MaxStarts == 1
\* refreshes and expiries of the lock key happen only below this etcd index
MaxEtcdIndex == 3

\* Start calls of one instance after its first Stop, where restarts are followed
MaxRestarts == 1

\* panics that one instance recovers from, where panics are followed
MaxPanics == 1

\* committed write commands, commands sent by clients, and the highest wall clock
MaxCmds == 2

MaxReqs == 3

MaxClock == 1

\* the longest option list of a SET command
MaxOpts == 3

\* calls of one goroutine on the storage
MaxCalls == 2
\* the number of OpenEng and CloseEng calls, and of reads by one goroutine
MaxOwnerCalls == 3

MaxReads == 2

\* the number of keys MultiGetBytes is called with
MaxKeys == 2

(***************************************************************************)
(* Program constants.                                                      *)
(***************************************************************************)
\* startSep byte = ':'
startSep == 58
stopSep == startSep + 1
maxWriteBatch == 1000
\* math.MaxUint64: the largest integer TLC has stands for 2^64-1; no
\* index of the model comes near it.
mathMaxUint64 == 2147483647
\* capacity of watchStopChan, eventsChan, stoppedChan and refreshStoppedChan
chanCap == 1

(***************************************************************************)
(* State of one RocksStorage (one node id, one group id).                  *)
(***************************************************************************)
VARIABLES
    db,          \* entryDB: the stored keys of the (node, group) -> pb.Entry
    snapshot,    \* ms.snapshot (Metadata.Index, .Term, .ConfState, and Data)
    firstIndex,  \* ms.firstIndex, the cached first index (0: unknown)
    lastIndex,   \* ms.lastIndex, the cached last index (0: unknown)
    call,        \* history: the last call, the entries given to it, its error
    snapFrom     \* history: which call installed the current snapshot

(***************************************************************************)
(* State of the EtcdLock instances that compete for one lock key, of the   *)
(* key in etcd and of the threads that call Start and Stop.                *)
(***************************************************************************)
VARIABLES
    events,      \* etcd: the changes of the lock key; change k has etcd index k and
                 \* leaves the value events[k] ("": deleted or expired)
    lock,        \* lock[i]: the EtcdLock with id i: its fields, channels and goroutines
    callers,     \* callers[i][c]: where caller thread c is in Start/Stop of lock i
    alive,       \* alive[i]: the process of lock i is running
    hist         \* history: MASTER_ADD events sent, creations by a holder, failed
                 \* refreshes, returned Stop calls, stopAcquire calls of a holder

VARIABLES
    committed,   \* the committed write commands of the raft group, with their ts
    kvnode,      \* kvnode[n]: the store of node n, how far it has applied the log,
                 \* and what each command it applied returned
    clock,       \* clock[n]: the wall clock of node n
    reqs         \* history: the commands clients sent, and their responses

(***************************************************************************)
(* State of one PebbleEng and of the goroutines that call it.              *)
(***************************************************************************)
VARIABLES
    pe,          \* the PebbleEng: rwmutex, eng, engOpened
    peCalls      \* peCalls[t]: the call goroutine t is in, where it is, its result

\* wb is ms.wb, the one write batch of the storage, as Append, Compact and
\* ApplySnapshot running on two goroutines use it; msCalls[g] holds the call
\* that goroutine g is in: its name, its place in the code (pc), its arguments
\* and local variables, and what the call itself has put in the batch since
\* its Clear (built, inBatch).
VARIABLES
    wb,
    msCalls

logVars == <<db, snapshot, firstIndex, lastIndex, call, snapFrom>>

lockVars == <<events, lock, callers, alive, hist>>

kvVars == <<committed, kvnode, clock, reqs>>

engVars == <<pe, peCalls, wb, msCalls>>

vars == <<logVars, lockVars, kvVars, engVars>>

----------------------------------------------------------------------------
(***************************************************************************)
(* Keys.  A key is id | gid | sep | index, big endian; id and gid are      *)
(* fixed for one storage, so a key is <<sep, index>> compared as the bytes *)
(* are: first by sep, then by index.  The 13-byte prefix keys carry no     *)
(* index and sort before every 21-byte key with the same sep.              *)
(***************************************************************************)
entryKey(idx) == <<startSep, idx>>

parseIndex(key) == key[2]

entryPrefixStart == <<startSep, -1>>

entryPrefixEnd == <<stopSep, -1>>

KeyLE(a, b) == a[1] < b[1] \/ (a[1] = b[1] /\ a[2] <= b[2])

KeyLT(a, b) == KeyLE(a, b) /\ a # b

MinKey(ks) == CHOOSE k \in ks : \A o \in ks : KeyLE(k, o)

MaxKey(ks) == CHOOSE k \in ks : \A o \in ks : KeyLE(o, k)

\* The keys an engine range iterator visits: [start, stop] or [start, stop).
RangeKeys(d, start, stop, rtype) ==
    {k \in DOMAIN d : /\ KeyLE(start, k)
                      /\ IF rtype = "RangeClose" THEN KeyLE(k, stop) ELSE KeyLT(k, stop)}

(***************************************************************************)
(* Entries and snapshots.                                                  *)
(***************************************************************************)
ZeroEntry == [Index |-> 0, Term |-> 0]

\* The membership a snapshot records, the nil *pb.ConfState, and the
\* application data of a snapshot.
ConfStates == {"cs1", "cs2"}

NilConfState == "nil"

SnapDatas == {"d1", "d2"}

\* pb.Snapshot{}: the zero ConfState and no data are both written "".
EmptySnap == [Index |-> 0, Term |-> 0, ConfState |-> "", Data |-> ""]

IsEmptySnap(sp) == sp.Index = 0

\* pb.Entry.Size(): one tag and one varint for each of Type, Term, Index (no Data).
sovRaft(x) == IF x < 128 THEN 1 ELSE 2

EntrySize(e) == (1 + sovRaft(0)) + (1 + sovRaft(e.Term)) + (1 + sovRaft(e.Index))

\* The value read for a key: nil (unmarshalled as the zero entry) when absent.
GetBytesNoLock(d, key) == IF key \in DOMAIN d THEN d[key] ELSE ZeroEntry

(***************************************************************************)
(* Bind(e, F) is F(e) with e evaluated once: F gets the value of e.        *)
(***************************************************************************)
Bind(e, F(_)) == CHOOSE y \in {F(v) : v \in {e}} : TRUE

(***************************************************************************)
(* The write batch: a sequence of Put and DeleteRange, applied in order.   *)
(***************************************************************************)
BatchPut(key, val) == [op |-> "Put", key |-> key, val |-> val]

BatchDeleteRange(start, stop) == [op |-> "DeleteRange", start |-> start, stop |-> stop]

ApplyOp(d, o) ==
    IF o.op = "Put"
    THEN [k \in (DOMAIN d) \cup {o.key} |-> IF k = o.key THEN o.val ELSE d[k]]
    ELSE [k \in {x \in DOMAIN d : ~(KeyLE(o.start, x) /\ KeyLT(x, o.stop))} |-> d[k]]

RECURSIVE ApplyBatchFrom(_, _, _)
ApplyBatchFrom(d, batch, i) ==
    IF i > Len(batch) THEN d
    ELSE Bind(ApplyOp(d, batch[i]), LAMBDA d1 : ApplyBatchFrom(d1, batch, i + 1))

\* ms.entryDB.Eng().Write(batch)
commitBatch(d, batch) == ApplyBatchFrom(d, batch, 1)

----------------------------------------------------------------------------
(***************************************************************************)
(* RocksStorage.  ms is the record [db, snapshot, firstIndex, lastIndex];  *)
(* every method returns its results and the storage it leaves.             *)
(***************************************************************************)
MS == [db |-> db, snapshot |-> snapshot, firstIndex |-> firstIndex, lastIndex |-> lastIndex]

seekEntry(d, seekTo, reverse) ==
    LET start == IF reverse THEN entryPrefixStart ELSE entryKey(seekTo)
        stop  == IF reverse THEN entryKey(seekTo) ELSE entryPrefixEnd
    IN  Bind(RangeKeys(d, start, stop, "RangeClose"), LAMBDA ks :
            IF ks = {}
            THEN [index |-> 0, e |-> ZeroEntry, err |-> "errNotFound"]
            ELSE Bind(IF reverse THEN MaxKey(ks) ELSE MinKey(ks), LAMBDA k :
                    [index |-> parseIndex(k), e |-> d[k], err |-> "nil"]))

setCachedFirstIndex(ms, index) == [ms EXCEPT !.firstIndex = index]

setCachedLastIndex(ms, index) == [ms EXCEPT !.lastIndex = index]

lastIndexCached(ms) == ms.lastIndex

\* firstIndexCached that forgets the snapshot.
firstIndexCached_noSnapshot(ms) ==
    IF ms.firstIndex > 0 THEN ms.firstIndex
    ELSE 0

firstIndexCached(ms) ==
    IF ~IsEmptySnap(ms.snapshot) THEN ms.snapshot.Index + 1
    ELSE IF ms.firstIndex > 0 THEN ms.firstIndex
    ELSE 0

LastIndex(ms) ==
    Bind(lastIndexCached(ms), LAMBDA index :
        IF index > 0
        THEN [val |-> index, err |-> "nil", ms |-> ms]
        ELSE Bind(seekEntry(ms.db, mathMaxUint64, TRUE), LAMBDA r :
                [val |-> r.index, err |-> r.err,
                 ms |-> IF r.err = "nil" THEN setCachedLastIndex(ms, r.index) ELSE ms]))

FirstIndex(ms) ==
    Bind(firstIndexCached(ms), LAMBDA index :
        IF index > 0
        THEN [val |-> index, err |-> "nil", ms |-> ms]
        ELSE Bind(seekEntry(ms.db, 0, FALSE), LAMBDA r :
                [val |-> r.index + 1, err |-> r.err,
                 ms |-> IF r.err = "nil" THEN setCachedFirstIndex(ms, r.index + 1) ELSE ms]))

\* The range scan of allEntries over the keys ks (in ascending order), until
\* the size passes maxSize with at least one entry collected.
RECURSIVE scanEntries(_, _, _, _, _)
scanEntries(d, ks, size, es, maxSize) ==
    IF ks = {} THEN es
    ELSE Bind(MinKey(ks), LAMBDA k :
            Bind(size + EntrySize(d[k]), LAMBDA sz :
                IF sz > maxSize /\ Len(es) > 0 THEN es
                ELSE Bind(Append(es, d[k]), LAMBDA es1 :
                        Bind(ks \ {k}, LAMBDA ks1 :
                            scanEntries(d, ks1, sz, es1, maxSize)))))

allEntries(d, lo, hi, maxSize) ==
    IF hi - lo = 1
    THEN <<GetBytesNoLock(d, entryKey(lo))>>
    ELSE Bind(RangeKeys(d, entryKey(lo), entryKey(hi), "RangeROpen"), LAMBDA ks :
            scanEntries(d, ks, 0, <<>>, maxSize))

\* Entries with the first bound test off by one.
Entries_offByOne(ms, lo, hi, maxSize) ==
    Bind(FirstIndex(ms), LAMBDA f :
        IF f.err # "nil" THEN [es |-> <<>>, err |-> f.err, ms |-> f.ms]
        ELSE IF lo <= f.val THEN [es |-> <<>>, err |-> "ErrCompacted", ms |-> f.ms]
        ELSE Bind(LastIndex(f.ms), LAMBDA l :
                IF l.err # "nil" THEN [es |-> <<>>, err |-> l.err, ms |-> l.ms]
                ELSE IF hi > l.val + 1 THEN [es |-> <<>>, err |-> "ErrUnavailable", ms |-> l.ms]
                ELSE [es |-> allEntries(l.ms.db, lo, hi, maxSize), err |-> "nil", ms |-> l.ms]))

Entries(ms, lo, hi, maxSize) ==
    Bind(FirstIndex(ms), LAMBDA f :
        IF f.err # "nil" THEN [es |-> <<>>, err |-> f.err, ms |-> f.ms]
        ELSE IF lo < f.val THEN [es |-> <<>>, err |-> "ErrCompacted", ms |-> f.ms]
        ELSE Bind(LastIndex(f.ms), LAMBDA l :
                IF l.err # "nil" THEN [es |-> <<>>, err |-> l.err, ms |-> l.ms]
                ELSE IF hi > l.val + 1 THEN [es |-> <<>>, err |-> "ErrUnavailable", ms |-> l.ms]
                ELSE [es |-> allEntries(l.ms.db, lo, hi, maxSize), err |-> "nil", ms |-> l.ms]))

Term(ms, idx) ==
    Bind(FirstIndex(ms), LAMBDA f :
        IF f.err # "nil" THEN [val |-> 0, err |-> f.err, ms |-> f.ms]
        ELSE IF idx < f.val - 1 THEN [val |-> 0, err |-> "ErrCompacted", ms |-> f.ms]
        ELSE Bind(seekEntry(f.ms.db, idx, FALSE), LAMBDA r :
                IF r.err = "errNotFound" THEN [val |-> 0, err |-> "ErrUnavailable", ms |-> f.ms]
                ELSE IF idx < r.e.Index THEN [val |-> 0, err |-> "ErrCompacted", ms |-> f.ms]
                ELSE [val |-> r.e.Term, err |-> "nil", ms |-> f.ms]))

Snapshot(ms) == ms.snapshot

NumEntries(ms) == Cardinality(RangeKeys(ms.db, entryKey(0), entryPrefixEnd, "RangeROpen"))

\* deleteUntil that deletes the entry at the bound as well.
deleteUntil_inclusive(batch, until) ==
    Append(batch, BatchDeleteRange(entryKey(0), entryKey(until + 1)))

deleteUntil(batch, until) == Append(batch, BatchDeleteRange(entryKey(0), entryKey(until)))

deleteFrom(batch, from) == Append(batch, BatchDeleteRange(entryKey(from), entryPrefixEnd))

\* writeEnts puts every entry in the batch, and commits the batch so far after
\* each maxWriteBatch entries that leave at least maxWriteBatch behind them.
RECURSIVE writeEntsFrom(_, _, _, _)
writeEntsFrom(d, batch, es, idx) ==
    IF idx >= Len(es) THEN [db |-> d, batch |-> batch]
    ELSE Bind(Append(batch, BatchPut(entryKey(es[idx + 1].Index), es[idx + 1])), LAMBDA b :
            IF (idx + 1) % maxWriteBatch = 0 /\ idx < Len(es) - maxWriteBatch
            THEN Bind(commitBatch(d, b), LAMBDA d1 : writeEntsFrom(d1, <<>>, es, idx + 1))
            ELSE writeEntsFrom(d, b, es, idx + 1))

\* writeEnts that leaves out the first entry.
writeEnts_skipFirst(d, batch, es) == writeEntsFrom(d, batch, es, 1)

writeEnts(d, batch, es) == writeEntsFrom(d, batch, es, 0)

\* ApplySnapshot that also takes a snapshot at the index of the current one.
ApplySnapshot_acceptEqual(ms, snap) ==
    IF ms.snapshot.Index > snap.Index
    THEN [err |-> "ErrSnapOutOfDate", ms |-> ms]
    ELSE Bind(setCachedLastIndex([ms EXCEPT !.snapshot = snap, !.firstIndex = 0], 0), LAMBDA m1 :
            Bind([Index |-> snap.Index, Term |-> snap.Term], LAMBDA e :
                Bind(commitBatch(m1.db, <<BatchPut(entryKey(e.Index), e)>>), LAMBDA d1 :
                    [err |-> "nil", ms |-> [m1 EXCEPT !.db = d1]])))

\* ApplySnapshot that stores no entry at the index of the snapshot.
ApplySnapshot_noAnchor(ms, snap) ==
    IF ms.snapshot.Index >= snap.Index
    THEN [err |-> "ErrSnapOutOfDate", ms |-> ms]
    ELSE [err |-> "nil",
          ms |-> setCachedLastIndex([ms EXCEPT !.snapshot = snap, !.firstIndex = 0], 0)]

ApplySnapshot(ms, snap) ==
    IF ms.snapshot.Index >= snap.Index
    THEN [err |-> "ErrSnapOutOfDate", ms |-> ms]
    ELSE Bind(setCachedLastIndex([ms EXCEPT !.snapshot = snap, !.firstIndex = 0], 0), LAMBDA m1 :
            Bind([Index |-> snap.Index, Term |-> snap.Term], LAMBDA e :
                Bind(commitBatch(m1.db, <<BatchPut(entryKey(e.Index), e)>>), LAMBDA d1 :
                    [err |-> "nil", ms |-> [m1 EXCEPT !.db = d1]])))

\* CreateSnapshot that keeps the data of the previous snapshot.
CreateSnapshot_keepData(ms, i, cs, data) ==
    Bind(FirstIndex(ms), LAMBDA f :
        IF f.err # "nil" THEN [snap |-> EmptySnap, err |-> f.err, ms |-> f.ms]
        ELSE IF i < f.val THEN [snap |-> EmptySnap, err |-> "ErrSnapOutOfDate", ms |-> f.ms]
        ELSE Bind(seekEntry(f.ms.db, i, FALSE), LAMBDA r :
                IF r.err # "nil" THEN [snap |-> EmptySnap, err |-> r.err, ms |-> f.ms]
                ELSE IF r.e.Index # i THEN [snap |-> EmptySnap, err |-> "errNotFound", ms |-> f.ms]
                ELSE Bind([Index |-> i, Term |-> r.e.Term,
                           ConfState |-> IF cs # NilConfState THEN cs
                                         ELSE f.ms.snapshot.ConfState,
                           Data |-> f.ms.snapshot.Data], LAMBDA sp :
                        [snap |-> sp, err |-> "nil",
                         ms |-> setCachedLastIndex(
                                    [f.ms EXCEPT !.snapshot = sp, !.firstIndex = 0], 0)])))

CreateSnapshot(ms, i, cs, data) ==
    Bind(FirstIndex(ms), LAMBDA f :
        IF f.err # "nil" THEN [snap |-> EmptySnap, err |-> f.err, ms |-> f.ms]
        ELSE IF i < f.val THEN [snap |-> EmptySnap, err |-> "ErrSnapOutOfDate", ms |-> f.ms]
        ELSE Bind(seekEntry(f.ms.db, i, FALSE), LAMBDA r :
                IF r.err # "nil" THEN [snap |-> EmptySnap, err |-> r.err, ms |-> f.ms]
                ELSE IF r.e.Index # i THEN [snap |-> EmptySnap, err |-> "errNotFound", ms |-> f.ms]
                ELSE Bind([Index |-> i, Term |-> r.e.Term,
                           ConfState |-> IF cs # NilConfState THEN cs
                                         ELSE f.ms.snapshot.ConfState,
                           Data |-> data], LAMBDA sp :
                        [snap |-> sp, err |-> "nil",
                         ms |-> setCachedLastIndex(
                                    [f.ms EXCEPT !.snapshot = sp, !.firstIndex = 0], 0)])))

Compact(ms, compactIndex) ==
    Bind(FirstIndex(ms), LAMBDA f :
        IF f.err # "nil" THEN [err |-> f.err, ms |-> f.ms]
        ELSE IF compactIndex <= f.val - 1 THEN [err |-> "ErrCompacted", ms |-> f.ms]
        ELSE Bind(LastIndex(f.ms), LAMBDA l :
                IF l.err # "nil" THEN [err |-> l.err, ms |-> l.ms]
                ELSE Bind(setCachedFirstIndex(l.ms, 0), LAMBDA m1 :
                        Bind(commitBatch(m1.db, deleteUntil(<<>>, compactIndex)), LAMBDA d1 :
                            [err |-> "nil", ms |-> [m1 EXCEPT !.db = d1]]))))

\* addEntries that keeps the entries above the last appended one.
addEntries_noDeleteFrom(ms, batch, entries) ==
    IF Len(entries) = 0 THEN [err |-> "nil", ms |-> ms, batch |-> batch]
    ELSE Bind(FirstIndex(ms), LAMBDA f :
        Bind(entries[1].Index, LAMBDA entryFirst :
        Bind(entryFirst + Len(entries) - 1, LAMBDA entryLast :
            IF f.err # "nil" THEN [err |-> f.err, ms |-> f.ms, batch |-> batch]
            ELSE IF entryLast < f.val THEN [err |-> "nil", ms |-> f.ms, batch |-> batch]
            ELSE Bind(IF f.val > entryFirst
                      THEN SubSeq(entries, f.val - entryFirst + 1, Len(entries))
                      ELSE entries, LAMBDA es :
                 Bind(LastIndex(f.ms), LAMBDA l :
                    IF l.err # "nil" THEN [err |-> l.err, ms |-> l.ms, batch |-> batch]
                    ELSE Bind(writeEnts(l.ms.db, batch, es), LAMBDA w :
                         Bind(es[Len(es)].Index, LAMBDA laste :
                            [err |-> "nil",
                             ms |-> setCachedLastIndex([l.ms EXCEPT !.db = w.db], laste),
                             batch |-> w.batch])))))))

\* addEntries: the storage and the batch it leaves to Append.
addEntries(ms, batch, entries) ==
    IF Len(entries) = 0 THEN [err |-> "nil", ms |-> ms, batch |-> batch]
    ELSE Bind(FirstIndex(ms), LAMBDA f :
        Bind(entries[1].Index, LAMBDA entryFirst :
        Bind(entryFirst + Len(entries) - 1, LAMBDA entryLast :
            IF f.err # "nil" THEN [err |-> f.err, ms |-> f.ms, batch |-> batch]
            ELSE IF entryLast < f.val THEN [err |-> "nil", ms |-> f.ms, batch |-> batch]
            ELSE Bind(IF f.val > entryFirst
                      THEN SubSeq(entries, f.val - entryFirst + 1, Len(entries))
                      ELSE entries, LAMBDA es :
                 Bind(LastIndex(f.ms), LAMBDA l :
                    IF l.err # "nil" THEN [err |-> l.err, ms |-> l.ms, batch |-> batch]
                    ELSE Bind(writeEnts(l.ms.db, batch, es), LAMBDA w :
                         Bind(es[Len(es)].Index, LAMBDA laste :
                            [err |-> "nil",
                             ms |-> setCachedLastIndex([l.ms EXCEPT !.db = w.db], laste),
                             batch |-> IF laste < l.val
                                       THEN deleteFrom(w.batch, laste + 1)
                                       ELSE w.batch])))))))

\* RocksStorage.Append
AppendEntries(ms, entries) ==
    Bind(addEntries(ms, <<>>, entries), LAMBDA a :
        IF a.err # "nil" THEN [err |-> a.err, ms |-> a.ms]
        ELSE Bind(commitBatch(a.ms.db, a.batch), LAMBDA d1 :
                [err |-> "nil", ms |-> [a.ms EXCEPT !.db = d1]]))

\* RocksStorage.Append when the engine refuses the write of commitBatch(batch):
\* what addEntries did stays, the batch is not applied
AppendEntries_IoError(ms, entries) ==
    Bind(addEntries(ms, <<>>, entries), LAMBDA a :
        IF a.err # "nil" THEN [err |-> a.err, ms |-> a.ms]
        ELSE [err |-> "IoError", ms |-> a.ms])

\* reset(ents) as NewRocksStorage calls it on an empty directory: one dummy entry.
reset(ms, es) ==
    Bind(commitBatch(ms.db, deleteFrom(<<>>, 0)), LAMBDA d0 :
        Bind(writeEnts(d0, <<>>, es), LAMBDA w :
            Bind(setCachedLastIndex(setCachedFirstIndex([ms EXCEPT !.db = w.db], 0), 0), LAMBDA m1 :
                [m1 EXCEPT !.db = commitBatch(m1.db, w.batch)])))

\* NewRocksStorage that resets whatever the directory holds.
NewRocksStorageOn_alwaysReset(d) ==
    Bind(FirstIndex([db |-> d, snapshot |-> EmptySnap, firstIndex |-> 0, lastIndex |-> 0]),
         LAMBDA f : reset(f.ms, <<ZeroEntry>>))

\* NewRocksStorage on a data directory that holds the keys d: a new struct
\* (empty snapshot, no cached index), and the dummy entry when FirstIndex()
\* finds no key.
NewRocksStorageOn(d) ==
    Bind(FirstIndex([db |-> d, snapshot |-> EmptySnap, firstIndex |-> 0, lastIndex |-> 0]),
         LAMBDA f : IF f.err = "errNotFound" THEN reset(f.ms, <<ZeroEntry>>) ELSE f.ms)

\* NewRocksStorage on an empty data directory
NewRocksStorage == NewRocksStorageOn(<<>>)

----------------------------------------------------------------------------
(***************************************************************************)
(* The calls of the raft layer on one storage.  Every action is one whole  *)
(* call; call records the last call: its name, the entries it was given    *)
(* (Append) and the error it returned.                                     *)
(***************************************************************************)
NoCall == [op |-> "Open", es |-> <<>>, err |-> "nil"]

\* The size limits the reads are called with: none, one entry, no limit.
SizeLimits == {0, EntrySize(ZeroEntry), mathMaxUint64}

\* The batches Append is called with: up to MaxAppend entries with consecutive
\* indexes, their terms never decreasing (as in every raft log).
Batches ==
    UNION {{ts \in [1..n -> 1..MaxTerm] : \A k \in 1..(n - 1) : ts[k] <= ts[k + 1]} :
           n \in 1..MaxAppend}

BatchAt(e0, terms) == [k \in 1..Len(terms) |-> [Index |-> e0 + k - 1, Term |-> terms[k]]]

Install(ms) ==
    /\ db' = ms.db
    /\ snapshot' = ms.snapshot
    /\ firstIndex' = ms.firstIndex
    /\ lastIndex' = ms.lastIndex
    /\ UNCHANGED <<lockVars, kvVars, engVars>>

\* Append(entries).  raft appends consecutive entries that start at or below
\* LastIndex()+1.
DoAppend ==
    \E e0 \in 1..MaxIndex : \E terms \in Batches :
        /\ e0 + Len(terms) - 1 <= MaxIndex
        /\ \E l \in {LastIndex(MS)} : l.err = "nil" /\ e0 <= l.val + 1
        /\ \E es \in {BatchAt(e0, terms)} : \E r \in {AppendEntries(MS, es)} :
            /\ Install(r.ms)
            /\ call' = [op |-> "Append", es |-> es, err |-> r.err]
            /\ UNCHANGED snapFrom

\* Compact(compactIndex).  The application never compacts past what it has
\* applied, so never past LastIndex().
DoCompact ==
    \E c \in 0..MaxIndex :
        /\ \E l \in {LastIndex(MS)} : l.err = "nil" /\ c <= l.val
        /\ \E r \in {Compact(MS, c)} :
            /\ Install(r.ms)
            /\ call' = [op |-> "Compact", es |-> <<>>, err |-> r.err]
            /\ UNCHANGED snapFrom

DoApplySnapshot ==
    \E i \in 1..MaxIndex : \E t \in 1..MaxTerm : \E cs \in ConfStates : \E data \in SnapDatas :
        \E r \in {ApplySnapshot(MS, [Index |-> i, Term |-> t, ConfState |-> cs, Data |-> data])} :
            /\ Install(r.ms)
            /\ call' = [op |-> "ApplySnapshot", es |-> <<>>, err |-> r.err]
            /\ snapFrom' = IF r.err = "nil" THEN "ApplySnapshot" ELSE snapFrom

DoCreateSnapshot ==
    \E i \in 0..MaxIndex : \E cs \in ConfStates \cup {NilConfState} : \E data \in SnapDatas :
        \E r \in {CreateSnapshot(MS, i, cs, data)} :
            /\ Install(r.ms)
            /\ call' = [op |-> "CreateSnapshot", es |-> <<>>, err |-> r.err]
            /\ snapFrom' = IF r.err = "nil" THEN "CreateSnapshot" ELSE snapFrom

DoEntries ==
    \E lo \in 0..(MaxIndex + 1) : \E hi \in 0..(MaxIndex + 2) : \E max \in SizeLimits :
        \E r \in {Entries(MS, lo, hi, max)} :
            /\ Install(r.ms)
            /\ call' = [op |-> "Entries", es |-> <<>>, err |-> r.err]
            /\ UNCHANGED snapFrom

DoTerm ==
    \E idx \in 0..(MaxIndex + 1) :
        \E r \in {Term(MS, idx)} :
            /\ Install(r.ms)
            /\ call' = [op |-> "Term", es |-> <<>>, err |-> r.err]
            /\ UNCHANGED snapFrom

DoFirstIndex ==
    \E r \in {FirstIndex(MS)} :
        /\ Install(r.ms)
        /\ call' = [op |-> "FirstIndex", es |-> <<>>, err |-> r.err]
        /\ UNCHANGED snapFrom

DoLastIndex ==
    \E r \in {LastIndex(MS)} :
        /\ Install(r.ms)
        /\ call' = [op |-> "LastIndex", es |-> <<>>, err |-> r.err]
        /\ UNCHANGED snapFrom

\* the process stops and NewRocksStorage opens the same data directory again
DoReopen ==
    \E ms \in {NewRocksStorageOn(db)} :
        /\ Install(ms)
        /\ call' = NoCall
        /\ snapFrom' = "none"

\* Append(entries) whose commit fails
DoAppendFailed ==
    \E e0 \in 1..MaxIndex : \E terms \in Batches :
        /\ e0 + Len(terms) - 1 <= MaxIndex
        /\ \E l \in {LastIndex(MS)} : l.err = "nil" /\ e0 <= l.val + 1
        /\ \E es \in {BatchAt(e0, terms)} : \E r \in {AppendEntries_IoError(MS, es)} :
            /\ Install(r.ms)
            /\ call' = [op |-> "Append", es |-> es, err |-> r.err]
            /\ UNCHANGED snapFrom

\* Compact(compactIndex) beyond LastIndex()
DoCompactBeyond ==
    \E c \in 1..(MaxIndex + 1) :
        /\ \E l \in {LastIndex(MS)} : l.err = "nil" /\ c > l.val
        /\ \E r \in {Compact(MS, c)} :
            /\ Install(r.ms)
            /\ call' = [op |-> "Compact", es |-> <<>>, err |-> r.err]
            /\ UNCHANGED snapFrom

NextLog ==
    \/ DoAppend
    \/ DoCompact
    \/ DoApplySnapshot
    \/ DoCreateSnapshot
    \/ DoEntries
    \/ DoTerm
    \/ DoFirstIndex
    \/ DoLastIndex

----------------------------------------------------------------------------
(***************************************************************************)
(* EtcdLock.  The instances compete for one lock key; the id of an         *)
(* instance is the value it writes.                                        *)
(***************************************************************************)
Instances == {"n1", "n2"}

\* The threads that call Stop on one instance.
Callers == {"c1", "c2"}

(***************************************************************************)
(* The etcd client, for the one key name.  Every change of the key takes   *)
(* the next etcd index, which becomes the ModifiedIndex of the node.       *)
(***************************************************************************)
EtcdIndex == Len(events)

KeyPresent == Len(events) > 0 /\ events[Len(events)] # ""

KeyValue == events[Len(events)]

\* client.Response: Node.Value, Node.ModifiedIndex, Index
NoRsp == [val |-> "", mi |-> 0, idx |-> 0]

\* Get: the node as it is, or KeyNotFound
EtcdGet ==
    IF KeyPresent
    THEN [err |-> FALSE, rsp |-> [val |-> KeyValue, mi |-> EtcdIndex, idx |-> EtcdIndex]]
    ELSE [err |-> TRUE, rsp |-> NoRsp]

\* Create(name, id, ttl): fails when the key exists
EtcdCreate(id) ==
    IF KeyPresent
    THEN [err |-> TRUE, rsp |-> NoRsp, events |-> events]
    ELSE [err |-> FALSE,
          rsp |-> [val |-> id, mi |-> EtcdIndex + 1, idx |-> EtcdIndex + 1],
          events |-> Append(events, id)]

\* CompareAndSwap(name, id, ttl, prevValue = id, prevIndex): sets the ttl anew
EtcdCompareAndSwap(id, prevIndex) ==
    IF KeyPresent /\ KeyValue = id /\ EtcdIndex = prevIndex
    THEN [err |-> FALSE,
          rsp |-> [val |-> id, mi |-> EtcdIndex + 1, idx |-> EtcdIndex + 1],
          events |-> Append(events, id)]
    ELSE [err |-> TRUE, rsp |-> NoRsp, events |-> events]

\* Delete(name): whatever the value is
EtcdDelete == IF KeyPresent THEN Append(events, "") ELSE events

\* Watch(name, afterIndex).Next: the first change after afterIndex, if any
EtcdWatchReady(afterIndex) == afterIndex < EtcdIndex

EtcdWatchNext(afterIndex, startIndex) ==
    [val |-> events[afterIndex + 1], mi |-> afterIndex + 1, idx |-> startIndex]

(***************************************************************************)
(* One EtcdLock: the fields of the struct, the channels (the bool channels *)
(* as the number of values in them), and its goroutines: the acquire loops *)
(* (acquire[l]), the refresh goroutines (their number) and the goroutines  *)
(* that wait on watchStopChan for an acquire that has returned (cancel).   *)
(***************************************************************************)
\* the goroutines that run acquire: those of MaxLoops calls of Start, and one
\* more for a Start that is called while a Stop has not returned
AcquireLoops == 1..MaxLoops + 1

\* acquire: not running
NoLoop == [pc |-> "none", rsp |-> NoRsp, err |-> FALSE,
           canceled |-> FALSE, cancelWait |-> FALSE, wx |-> 0]

\* acquire as it starts: err is the dummy error, its goroutine waits on watchStopChan
NewLoop == [pc |-> "top", rsp |-> NoRsp, err |-> TRUE,
            canceled |-> FALSE, cancelWait |-> TRUE, wx |-> 0]

NewMaster ==
    [enable |-> FALSE, master |-> "",
     watchStopChan |-> 0, eventsChan |-> <<>>, stoppedChan |-> 0, refreshStoppedChan |-> 0,
     ifHolding |-> FALSE, modifiedIndex |-> 0,
     acquire |-> [l \in AcquireLoops |-> NoLoop], refresh |-> 0, cancel |-> 0, starts |-> 0]

MasterEvent(type, m, idx) == [Type |-> type, Master |-> m, ModifiedIndex |-> idx]

NoHist ==
    [adds |-> {}, recreated |-> {},
     casFailed |-> [i \in Instances |-> FALSE],
     stopped |-> [i \in Instances |-> "no"],
     raced |-> [i \in Instances |-> FALSE],
     last |-> [i \in Instances |-> [idx |-> 0, run |-> 0]],
     panics |-> [i \in Instances |-> 0],
     released |-> [i \in Instances |-> FALSE],
     held |-> [i \in Instances |-> FALSE]]

\* the number of MASTER_ADD events the instance has issued
AddsBy(i) == Cardinality({a \in hist.adds : a.id = i})

Max(a, b) == IF a > b THEN a ELSE b

FreeLoops(i) == {l \in 1..MaxLoops : lock[i].acquire[l].pc = "none"}

InStop(i) == \E c \in Callers : callers[i][c] \in {"send", "wait"}

(***************************************************************************)
(* The steps of EtcdLock.  Every step leaves the raft log alone.           *)
(***************************************************************************)
SetLoop(i, l, pc) == [lock EXCEPT ![i].acquire[l].pc = pc]

\* Start: nothing when enabled, else enable and run acquire in a goroutine
Start(i) ==
    /\ alive[i]
    /\ lock[i].enable \/ (lock[i].starts < MaxStarts /\ FreeLoops(i) # {})
    /\ IF lock[i].enable
       THEN lock' = lock
       ELSE \E l \in {CHOOSE k \in FreeLoops(i) : TRUE} :
               lock' = [lock EXCEPT ![i].enable = TRUE,
                                    ![i].acquire[l] = NewLoop,
                                    ![i].starts = @ + 1]
    /\ hist' = [hist EXCEPT !.stopped[i] = "no",
                            !.raced[i] = @ \/ InStop(i)]
    /\ UNCHANGED <<events, callers, alive, logVars, kvVars, engVars>>

\* Start, where an instance may be started again after a Stop
Restart(i) ==
    /\ alive[i]
    /\ lock[i].enable \/ (lock[i].starts < MaxStarts + MaxRestarts /\ FreeLoops(i) # {})
    /\ IF lock[i].enable
       THEN lock' = lock
       ELSE \E l \in {CHOOSE k \in FreeLoops(i) : TRUE} :
               lock' = [lock EXCEPT ![i].enable = TRUE,
                                    ![i].acquire[l] = NewLoop,
                                    ![i].starts = @ + 1]
    /\ hist' = [hist EXCEPT !.stopped[i] = "no",
                            !.raced[i] = @ \/ InStop(i)]
    /\ UNCHANGED <<events, callers, alive, logVars, kvVars, engVars>>

\* Start, called from another goroutine while a Stop waits for its answer: it
\* finds enable = false, sets it and runs acquire in a new goroutine, whether
\* or not the acquire of the earlier Start has returned
Start_duringStop(i) ==
    /\ alive[i] /\ InStop(i)
    /\ lock[i].enable \/ lock[i].starts < MaxStarts + MaxRestarts
    /\ \E k \in AcquireLoops : lock[i].acquire[k].pc = "none"
    /\ IF lock[i].enable
       THEN lock' = lock
       ELSE \E l \in {CHOOSE k \in AcquireLoops : lock[i].acquire[k].pc = "none"} :
               lock' = [lock EXCEPT ![i].enable = TRUE,
                                    ![i].acquire[l] = NewLoop,
                                    ![i].starts = @ + 1]
    /\ hist' = [hist EXCEPT !.stopped[i] = "no", !.raced[i] = TRUE]
    /\ UNCHANGED <<events, callers, alive, logVars, kvVars, engVars>>

\* Stop, up to the unlock: return when not enabled, else disable
Stop(i, c) ==
    /\ alive[i] /\ callers[i][c] = "idle"
    /\ IF ~lock[i].enable
       THEN /\ hist' = [hist EXCEPT !.stopped[i] = IF @ = "waited" THEN @ ELSE "early"]
            /\ UNCHANGED <<lock, callers>>
       ELSE /\ lock' = [lock EXCEPT ![i].enable = FALSE]
            /\ callers' = [callers EXCEPT ![i][c] = "send"]
            /\ hist' = hist
    /\ UNCHANGED <<events, alive, logVars, kvVars, engVars>>

\* Stop: watchStopChan <- true
Stop_send(i, c) ==
    /\ alive[i] /\ callers[i][c] = "send"
    /\ lock[i].watchStopChan < chanCap
    /\ lock' = [lock EXCEPT ![i].watchStopChan = @ + 1]
    /\ callers' = [callers EXCEPT ![i][c] = "wait"]
    /\ UNCHANGED <<events, alive, hist, logVars, kvVars, engVars>>

Stop_return(i, c) ==
    /\ alive[i] /\ callers[i][c] = "wait"
    /\ lock' = [lock EXCEPT ![i].stoppedChan = IF @ > 0 THEN @ - 1 ELSE @]
    /\ callers' = [callers EXCEPT ![i][c] = "idle"]
    /\ hist' = [hist EXCEPT !.stopped[i] = "waited"]
    /\ UNCHANGED <<events, alive, logVars, kvVars, engVars>>

\* Stop: <-stoppedChan, and return
Stop_wait(i, c) ==
    /\ alive[i] /\ callers[i][c] = "wait"
    /\ lock[i].stoppedChan > 0
    /\ lock' = [lock EXCEPT ![i].stoppedChan = @ - 1]
    /\ callers' = [callers EXCEPT ![i][c] = "idle"]
    /\ hist' = [hist EXCEPT !.stopped[i] = "waited"]
    /\ UNCHANGED <<events, alive, logVars, kvVars, engVars>>

\* acquire's goroutine: <-watchStopChan, cancel()
acquire_cancel(i, l) ==
    /\ alive[i] /\ lock[i].acquire[l].cancelWait
    /\ lock[i].watchStopChan > 0
    /\ lock' = [lock EXCEPT ![i].watchStopChan = @ - 1,
                            ![i].acquire[l].cancelWait = FALSE,
                            ![i].acquire[l].canceled = TRUE]
    /\ UNCHANGED <<events, callers, alive, hist, logVars, kvVars, engVars>>

\* the same goroutine of an acquire that has returned
acquire_cancelLate(i) ==
    /\ alive[i] /\ lock[i].cancel > 0
    /\ lock[i].watchStopChan > 0
    /\ lock' = [lock EXCEPT ![i].watchStopChan = @ - 1, ![i].cancel = @ - 1]
    /\ UNCHANGED <<events, callers, alive, hist, logVars, kvVars, engVars>>

\* acquire, head of the loop: stopAcquire when disabled; Get or processEtcdRsp
acquire_loop(i, l) ==
    /\ alive[i] /\ lock[i].acquire[l].pc = "top"
    /\ \E a \in {lock[i].acquire[l]} :
          lock' = SetLoop(i, l,
                     IF ~lock[i].enable
                     THEN (IF lock[i].ifHolding THEN "Delete" ELSE "stopped")
                     ELSE IF a.err \/ a.rsp.val = "" THEN "Get" ELSE "processEtcdRsp")
    /\ UNCHANGED <<events, callers, alive, hist, logVars, kvVars, engVars>>

\* acquire: client.Get
acquire_Get(i, l) ==
    /\ alive[i] /\ lock[i].acquire[l].pc = "Get"
    /\ \E r \in {EtcdGet} :
          lock' = [lock EXCEPT ![i].acquire[l].rsp = r.rsp,
                               ![i].acquire[l].err = r.err,
                               ![i].acquire[l].pc = IF r.err THEN "Create" ELSE "processEtcdRsp"]
    /\ UNCHANGED <<events, callers, alive, hist, logVars, kvVars, engVars>>

\* acquire: client.Create after KeyNotFound; continue on error
acquire_Create(i, l) ==
    /\ alive[i] /\ lock[i].acquire[l].pc = "Create"
    /\ \E r \in {EtcdCreate(i)} :
          /\ events' = r.events
          /\ lock' = [lock EXCEPT ![i].acquire[l].rsp = r.rsp,
                                  ![i].acquire[l].err = r.err,
                                  ![i].acquire[l].pc = IF r.err THEN "top" ELSE "processEtcdRsp"]
          /\ hist' = IF ~r.err /\ lock[i].ifHolding
                     THEN [hist EXCEPT !.recreated = @ \cup {r.rsp.mi}]
                     ELSE hist
    /\ UNCHANGED <<callers, alive, logVars, kvVars, engVars>>

\* processEtcdRsp that sends MASTER_MODIFY whether or not the master changed.
processEtcdRsp_noMasterCheck(i, l) ==
    /\ alive[i] /\ lock[i].acquire[l].pc = "processEtcdRsp"
    /\ \E v \in {lock[i].acquire[l].rsp.val} :
          IF v = i
          THEN /\ lock' = IF ~lock[i].ifHolding
                          THEN [lock EXCEPT ![i].ifHolding = TRUE,
                                            ![i].acquire[l].pc = "MASTER_ADD"]
                          ELSE SetLoop(i, l, "master")
               /\ hist' = hist
          ELSE IF lock[i].ifHolding
               THEN /\ lock' = [lock EXCEPT ![i].ifHolding = FALSE,
                                            ![i].acquire[l].pc = "refreshStoppedChan"]
                    /\ hist' = [hist EXCEPT !.casFailed[i] = FALSE]
               ELSE /\ lock' = SetLoop(i, l, "MASTER_MODIFY")
                    /\ hist' = hist
    /\ UNCHANGED <<events, callers, alive, logVars, kvVars, engVars>>

processEtcdRsp_keepHolding(i, l) ==
    /\ alive[i] /\ lock[i].acquire[l].pc = "processEtcdRsp"
    /\ \E v \in {lock[i].acquire[l].rsp.val} :
          IF v = i
          THEN lock' = IF ~lock[i].ifHolding
                       THEN [lock EXCEPT ![i].ifHolding = TRUE,
                                         ![i].acquire[l].pc = "MASTER_ADD"]
                       ELSE SetLoop(i, l, "master")
          ELSE lock' = SetLoop(i, l, IF lock[i].master # v THEN "MASTER_MODIFY" ELSE "master")
    /\ UNCHANGED <<events, callers, alive, hist, logVars, kvVars, engVars>>

processEtcdRsp_noHoldingCheck(i, l) ==
    /\ alive[i] /\ lock[i].acquire[l].pc = "processEtcdRsp"
    /\ \E v \in {lock[i].acquire[l].rsp.val} :
          IF v = i
          THEN /\ lock' = [lock EXCEPT ![i].ifHolding = TRUE,
                                       ![i].acquire[l].pc = "MASTER_ADD"]
               /\ hist' = hist
          ELSE IF lock[i].ifHolding
               THEN /\ lock' = [lock EXCEPT ![i].ifHolding = FALSE,
                                            ![i].acquire[l].pc = "refreshStoppedChan"]
                    /\ hist' = [hist EXCEPT !.casFailed[i] = FALSE]
               ELSE /\ lock' = SetLoop(i, l, IF lock[i].master # v THEN "MASTER_MODIFY" ELSE "master")
                    /\ hist' = hist
    /\ UNCHANGED <<events, callers, alive, logVars, kvVars, engVars>>

\* processEtcdRsp, up to its first channel send
processEtcdRsp(i, l) ==
    /\ alive[i] /\ lock[i].acquire[l].pc = "processEtcdRsp"
    /\ \E v \in {lock[i].acquire[l].rsp.val} :
          IF v = i
          THEN /\ lock' = IF ~lock[i].ifHolding
                          THEN [lock EXCEPT ![i].ifHolding = TRUE,
                                            ![i].acquire[l].pc = "MASTER_ADD"]
                          ELSE SetLoop(i, l, "master")
               /\ hist' = hist
          ELSE IF lock[i].ifHolding
               THEN /\ lock' = [lock EXCEPT ![i].ifHolding = FALSE,
                                            ![i].acquire[l].pc = "refreshStoppedChan"]
                    /\ hist' = [hist EXCEPT !.casFailed[i] = FALSE]
               ELSE /\ lock' = SetLoop(i, l, IF lock[i].master # v THEN "MASTER_MODIFY" ELSE "master")
                    /\ hist' = hist
    /\ UNCHANGED <<events, callers, alive, logVars, kvVars, engVars>>

\* processEtcdRsp: eventsChan <- MASTER_ADD, go refresh()
processEtcdRsp_add(i, l) ==
    /\ alive[i] /\ lock[i].acquire[l].pc = "MASTER_ADD"
    /\ Len(lock[i].eventsChan) < chanCap
    /\ \E mi \in {lock[i].acquire[l].rsp.mi} :
          /\ lock' = [lock EXCEPT ![i].eventsChan = Append(@, MasterEvent("MASTER_ADD", i, mi)),
                                  ![i].refresh = @ + 1,
                                  ![i].acquire[l].pc = "master"]
          /\ hist' = [hist EXCEPT !.adds = @ \cup {[id |-> i, idx |-> mi, n |-> AddsBy(i) + 1]},
                                  !.last[i] = [idx |-> mi, run |-> lock[i].starts],
                                  !.held[i] = TRUE]
    /\ UNCHANGED <<events, callers, alive, logVars, kvVars, engVars>>

\* processEtcdRsp: refreshStoppedChan <- true
processEtcdRsp_stopRefresh(i, l) ==
    /\ alive[i] /\ lock[i].acquire[l].pc = "refreshStoppedChan"
    /\ lock[i].refreshStoppedChan < chanCap
    /\ lock' = [lock EXCEPT ![i].refreshStoppedChan = @ + 1,
                            ![i].acquire[l].pc = "MASTER_DELETE"]
    /\ UNCHANGED <<events, callers, alive, hist, logVars, kvVars, engVars>>

\* processEtcdRsp: eventsChan <- MASTER_DELETE
processEtcdRsp_delete(i, l) ==
    /\ alive[i] /\ lock[i].acquire[l].pc = "MASTER_DELETE"
    /\ Len(lock[i].eventsChan) < chanCap
    /\ lock' = [lock EXCEPT ![i].eventsChan = Append(@, MasterEvent("MASTER_DELETE", "", 0)),
                            ![i].acquire[l].pc =
                                IF lock[i].master # lock[i].acquire[l].rsp.val
                                THEN "MASTER_MODIFY" ELSE "master"]
    /\ hist' = [hist EXCEPT !.held[i] = FALSE]
    /\ UNCHANGED <<events, callers, alive, logVars, kvVars, engVars>>

\* processEtcdRsp: eventsChan <- MASTER_MODIFY
processEtcdRsp_modify(i, l) ==
    /\ alive[i] /\ lock[i].acquire[l].pc = "MASTER_MODIFY"
    /\ Len(lock[i].eventsChan) < chanCap
    /\ \E r \in {lock[i].acquire[l].rsp} :
          /\ lock' = [lock EXCEPT ![i].eventsChan = Append(@, MasterEvent("MASTER_MODIFY", r.val, r.mi)),
                                  ![i].acquire[l].pc = "master"]
          /\ hist' = [hist EXCEPT !.last[i] = [idx |-> r.mi, run |-> lock[i].starts]]
    /\ UNCHANGED <<events, callers, alive, logVars, kvVars, engVars>>

\* acquire: master and modifiedIndex from the response; the watch begins
acquire_master(i, l) ==
    /\ alive[i] /\ lock[i].acquire[l].pc = "master"
    /\ \E r \in {lock[i].acquire[l].rsp} :
          lock' = [lock EXCEPT ![i].master = r.val,
                               ![i].modifiedIndex = r.mi,
                               ![i].acquire[l].wx = EtcdIndex,
                               ![i].acquire[l].pc = "Watch"]
    /\ UNCHANGED <<events, callers, alive, hist, logVars, kvVars, engVars>>

\* acquire: watcher.Next returns the next change, or the context was canceled
acquire_Watch(i, l) ==
    /\ alive[i] /\ lock[i].acquire[l].pc = "Watch"
    /\ \E a \in {lock[i].acquire[l]} :
       \E wi \in {Max(a.rsp.mi, a.rsp.idx)} :
          /\ a.canceled \/ EtcdWatchReady(wi)
          /\ lock' = IF a.canceled
                     THEN [lock EXCEPT ![i].acquire[l].rsp = NoRsp,
                                       ![i].acquire[l].err = TRUE,
                                       ![i].acquire[l].pc = "top"]
                     ELSE [lock EXCEPT ![i].acquire[l].rsp = EtcdWatchNext(wi, a.wx),
                                       ![i].acquire[l].err = FALSE,
                                       ![i].acquire[l].pc = "top"]
    /\ UNCHANGED <<events, callers, alive, hist, logVars, kvVars, engVars>>

\* acquire: watcher.Next fails with an error other than context.Canceled (a
\* timeout, an outdated index); the next round of the loop calls Get
acquire_WatchError(i, l) ==
    /\ alive[i] /\ lock[i].acquire[l].pc = "Watch"
    /\ ~lock[i].acquire[l].canceled
    /\ lock' = [lock EXCEPT ![i].acquire[l].rsp = NoRsp,
                            ![i].acquire[l].err = TRUE,
                            ![i].acquire[l].pc = "top"]
    /\ UNCHANGED <<events, callers, alive, hist, logVars, kvVars, engVars>>

\* A panic inside acquire, at any point of its loop.  The deferred function
\* recovers, logs the stack and makes acquire return an error; the loop of
\* Start's goroutine calls acquire again, which starts with no response, the
\* dummy error, a new context and a new goroutine on watchStopChan (the one of
\* the call that panicked keeps waiting).
acquire_panic(i, l) ==
    /\ alive[i]
    /\ lock[i].acquire[l].pc \in {"top", "Get", "Create", "processEtcdRsp", "MASTER_ADD",
                                  "refreshStoppedChan", "MASTER_DELETE", "MASTER_MODIFY",
                                  "master", "Watch"}
    /\ hist.panics[i] < MaxPanics
    /\ lock' = [lock EXCEPT ![i].acquire[l] = NewLoop,
                            ![i].cancel = IF lock[i].acquire[l].cancelWait THEN @ + 1 ELSE @]
    /\ hist' = [hist EXCEPT !.panics[i] = @ + 1]
    /\ UNCHANGED <<events, callers, alive, logVars, kvVars, engVars>>

\* stopAcquire while holding: client.Delete
\* stopAcquire that leaves the key to expire
stopAcquire_noDelete(i, l) ==
    /\ alive[i] /\ lock[i].acquire[l].pc = "Delete"
    /\ events' = events
    /\ lock' = SetLoop(i, l, "ifHolding")
    /\ hist' = [hist EXCEPT !.released[i] = TRUE]
    /\ UNCHANGED <<callers, alive, logVars, kvVars, engVars>>

stopAcquire_Delete(i, l) ==
    /\ alive[i] /\ lock[i].acquire[l].pc = "Delete"
    /\ events' = EtcdDelete
    /\ lock' = SetLoop(i, l, "ifHolding")
    /\ hist' = [hist EXCEPT !.released[i] = TRUE]
    /\ UNCHANGED <<callers, alive, logVars, kvVars, engVars>>

\* stopAcquire while holding: ifHolding = false
stopAcquire_ifHolding(i, l) ==
    /\ alive[i] /\ lock[i].acquire[l].pc = "ifHolding"
    /\ lock' = [lock EXCEPT ![i].ifHolding = FALSE,
                            ![i].acquire[l].pc = "stopRefresh"]
    /\ hist' = [hist EXCEPT !.casFailed[i] = FALSE, !.held[i] = FALSE]
    /\ UNCHANGED <<events, callers, alive, logVars, kvVars, engVars>>

\* stopAcquire while holding: refreshStoppedChan <- true
stopAcquire_stopRefresh(i, l) ==
    /\ alive[i] /\ lock[i].acquire[l].pc = "stopRefresh"
    /\ lock[i].refreshStoppedChan < chanCap
    /\ lock' = [lock EXCEPT ![i].refreshStoppedChan = @ + 1,
                            ![i].acquire[l].pc = "stopped"]
    /\ UNCHANGED <<events, callers, alive, hist, logVars, kvVars, engVars>>

\* stopAcquire: master = "", stoppedChan <- true; acquire returns nil
stopAcquire(i, l) ==
    /\ alive[i] /\ lock[i].acquire[l].pc = "stopped"
    /\ lock[i].stoppedChan < chanCap
    /\ lock' = [lock EXCEPT ![i].master = "",
                            ![i].stoppedChan = @ + 1,
                            ![i].cancel = IF lock[i].acquire[l].cancelWait THEN @ + 1 ELSE @,
                            ![i].acquire[l] = NoLoop]
    /\ UNCHANGED <<events, callers, alive, hist, logVars, kvVars, engVars>>

refresh_lostOnError(i) ==
    /\ alive[i] /\ lock[i].refresh > 0
    /\ \E r \in {EtcdCompareAndSwap(i, lock[i].modifiedIndex)} :
          /\ r.err \/ EtcdIndex < MaxEtcdIndex
          /\ events' = r.events
          /\ lock' = IF r.err THEN [lock EXCEPT ![i].ifHolding = FALSE]
                     ELSE [lock EXCEPT ![i].modifiedIndex = r.rsp.mi]
          /\ hist' = IF r.err /\ lock[i].ifHolding
                     THEN [hist EXCEPT !.casFailed[i] = TRUE]
                     ELSE hist
    /\ UNCHANGED <<callers, alive, logVars, kvVars, engVars>>

\* refresh, timer case: CompareAndSwap with modifiedIndex; an error is only logged
refresh(i) ==
    /\ alive[i] /\ lock[i].refresh > 0
    /\ \E r \in {EtcdCompareAndSwap(i, lock[i].modifiedIndex)} :
          /\ r.err \/ EtcdIndex < MaxEtcdIndex
          /\ events' = r.events
          /\ lock' = IF r.err THEN lock
                     ELSE [lock EXCEPT ![i].modifiedIndex = r.rsp.mi]
          /\ hist' = IF r.err /\ lock[i].ifHolding
                     THEN [hist EXCEPT !.casFailed[i] = TRUE]
                     ELSE hist
    /\ UNCHANGED <<callers, alive, logVars, kvVars, engVars>>

\* refresh, case <-refreshStoppedChan: return
refresh_stop(i) ==
    /\ alive[i] /\ lock[i].refresh > 0
    /\ lock[i].refreshStoppedChan > 0
    /\ lock' = [lock EXCEPT ![i].refreshStoppedChan = @ - 1, ![i].refresh = @ - 1]
    /\ UNCHANGED <<events, callers, alive, hist, logVars, kvVars, engVars>>

\* the owner of the instance receives from GetEventsChan()
ReceiveEvent(i) ==
    /\ alive[i] /\ lock[i].eventsChan # <<>>
    /\ lock' = [lock EXCEPT ![i].eventsChan = Tail(@)]
    /\ UNCHANGED <<events, callers, alive, hist, logVars, kvVars, engVars>>

\* the goroutine that owns the instance receives from GetEventsChan(); it is
\* the goroutine that calls Stop, and receives nothing while it is in Stop
ReceiveEvent_owner(i) ==
    /\ ~InStop(i)
    /\ ReceiveEvent(i)

\* the ttl of the key runs out
Expire ==
    /\ KeyPresent /\ EtcdIndex < MaxEtcdIndex
    /\ events' = Append(events, "")
    /\ UNCHANGED <<lock, callers, alive, hist, logVars, kvVars, engVars>>

\* a node that runs elsewhere creates the key with its own id
CreateByOther(id) ==
    /\ ~KeyPresent /\ EtcdIndex < MaxEtcdIndex
    /\ events' = EtcdCreate(id).events
    /\ UNCHANGED <<lock, callers, alive, hist, logVars, kvVars, engVars>>

\* the process of the holder dies
Die(i) ==
    /\ alive[i] /\ lock[i].ifHolding
    /\ KeyPresent /\ KeyValue = i
    /\ \A j \in Instances : alive[j]
    /\ alive' = [alive EXCEPT ![i] = FALSE]
    /\ UNCHANGED <<events, lock, callers, hist, logVars, kvVars, engVars>>

\* the ttl of the key of a dead holder runs out
ExpireDead ==
    /\ KeyPresent /\ ~alive[KeyValue]
    /\ events' = Append(events, "")
    /\ UNCHANGED <<lock, callers, alive, hist, logVars, kvVars, engVars>>

AcquireStep(i, l) ==
    \/ acquire_loop(i, l)
    \/ acquire_Get(i, l)
    \/ acquire_Create(i, l)
    \/ processEtcdRsp(i, l)
    \/ processEtcdRsp_add(i, l)
    \/ processEtcdRsp_stopRefresh(i, l)
    \/ processEtcdRsp_delete(i, l)
    \/ processEtcdRsp_modify(i, l)
    \/ acquire_master(i, l)
    \/ acquire_Watch(i, l)

StopStep(i, l) ==
    \/ acquire_cancel(i, l)
    \/ stopAcquire_Delete(i, l)
    \/ stopAcquire_ifHolding(i, l)
    \/ stopAcquire_stopRefresh(i, l)
    \/ stopAcquire(i, l)

NextLock ==
    \/ \E i \in Instances : Start(i)
    \/ \E i \in Instances : \E c \in Callers :
          Stop(i, c) \/ Stop_send(i, c) \/ Stop_wait(i, c)
    \/ \E i \in Instances : \E l \in 1..MaxLoops : AcquireStep(i, l) \/ StopStep(i, l)
    \/ \E i \in Instances :
          acquire_cancelLate(i) \/ refresh(i) \/ refresh_stop(i) \/ ReceiveEvent(i)
    \/ Expire

\* An instance is started again after Stop, and a watch may fail.  The time
\* followed is shorter than the ttl of the key: no timer of refresh fires and
\* the key does not expire, so no holder finds the key taken from it.
NextRestart ==
    \/ \E i \in Instances : Restart(i)
    \/ \E i \in Instances : \E c \in Callers :
          Stop(i, c) \/ Stop_send(i, c) \/ Stop_wait(i, c)
    \/ \E i \in Instances : \E l \in 1..MaxLoops :
          \/ acquire_loop(i, l)
          \/ acquire_Get(i, l)
          \/ acquire_Create(i, l)
          \/ processEtcdRsp(i, l)
          \/ processEtcdRsp_add(i, l)
          \/ processEtcdRsp_modify(i, l)
          \/ acquire_master(i, l)
          \/ acquire_Watch(i, l)
          \/ acquire_WatchError(i, l)
          \/ StopStep(i, l)
    \/ \E i \in Instances : acquire_cancelLate(i) \/ refresh_stop(i) \/ ReceiveEvent(i)

\* nobody calls Stop, and acquire may panic
NextPanic ==
    \/ \E i \in Instances : Start(i)
    \/ \E i \in Instances : \E l \in 1..MaxLoops : AcquireStep(i, l) \/ acquire_panic(i, l)
    \/ \E i \in Instances : refresh(i) \/ refresh_stop(i) \/ ReceiveEvent(i)
    \/ Expire

\* nobody calls Stop, and the process of a holder may die
NextLive ==
    \/ \E i \in Instances : Start(i)
    \/ \E i \in Instances : \E l \in 1..MaxLoops : AcquireStep(i, l)
    \/ \E i \in Instances : refresh(i) \/ refresh_stop(i) \/ ReceiveEvent(i)
    \/ \E i \in Instances : Die(i)
    \/ Expire
    \/ ExpireDead

\* every goroutine that can run does run, the owner of a live instance keeps
\* receiving its events, and the ttl of a dead holder's key runs out
FairLive ==
    /\ \A i \in Instances : \A l \in 1..MaxLoops : WF_vars(AcquireStep(i, l))
    /\ \A i \in Instances : WF_vars(refresh_stop(i))
    /\ \A i \in Instances : WF_vars(ReceiveEvent(i))
    /\ WF_vars(ExpireDead)

\* Start and Stop called on an instance from several goroutines, within the
\* ttl of the key
NextStartStop ==
    \/ \E i \in Instances : Start(i) \/ Start_duringStop(i)
    \/ \E i \in Instances : \E c \in Callers :
          Stop(i, c) \/ Stop_send(i, c) \/ Stop_wait(i, c)
    \/ \E i \in Instances : \E l \in AcquireLoops : AcquireStep(i, l) \/ StopStep(i, l)
    \/ \E i \in Instances : acquire_cancelLate(i) \/ refresh_stop(i) \/ ReceiveEvent(i)

\* Start and Stop called on the instance n1 from several goroutines, while
\* the key may expire and the node n2, which runs elsewhere, may create it
NextStartStopLease ==
    \/ Start("n1") \/ Start_duringStop("n1")
    \/ \E c \in Callers : Stop("n1", c) \/ Stop_send("n1", c) \/ Stop_wait("n1", c)
    \/ \E l \in AcquireLoops : AcquireStep("n1", l) \/ StopStep("n1", l)
    \/ acquire_cancelLate("n1") \/ refresh_stop("n1") \/ ReceiveEvent("n1")
    \/ Expire
    \/ CreateByOther("n2")

\* every goroutine that can run does run: the acquire loops, the goroutines
\* that wait on watchStopChan, the refresh loops on their stop channel, the
\* callers of Stop, and the owner that receives the events
FairStartStop ==
    /\ \A i \in Instances : \A l \in AcquireLoops :
           WF_vars(AcquireStep(i, l)) /\ WF_vars(StopStep(i, l))
    /\ \A i \in Instances :
           WF_vars(acquire_cancelLate(i)) /\ WF_vars(refresh_stop(i)) /\ WF_vars(ReceiveEvent(i))
    /\ \A i \in Instances : \A c \in Callers :
           WF_vars(Stop_send(i, c)) /\ WF_vars(Stop_wait(i, c))

\* Stop called by the goroutine that receives the events; the key may expire
\* before a timer of refresh fires
NextStopLive ==
    \/ \E i \in Instances : Start(i)
    \/ \E i \in Instances : \E c \in Callers :
          Stop(i, c) \/ Stop_send(i, c) \/ Stop_wait(i, c)
    \/ \E i \in Instances : \E l \in 1..MaxLoops :
          AcquireStep(i, l) \/ StopStep(i, l)
    \/ \E i \in Instances :
          acquire_cancelLate(i) \/ refresh_stop(i) \/ ReceiveEvent_owner(i)
    \/ Expire

\* every goroutine that can run does run: the acquire loop, the goroutines
\* that wait on watchStopChan, the refresh loop on its stop channel, the
\* caller of Stop, and the owner that receives the events when it is not in
\* Stop
FairStopLive ==
    /\ \A i \in Instances : \A l \in 1..MaxLoops :
           WF_vars(AcquireStep(i, l)) /\ WF_vars(StopStep(i, l))
    /\ \A i \in Instances :
           /\ WF_vars(acquire_cancelLate(i))
           /\ WF_vars(refresh_stop(i))
           /\ WF_vars(ReceiveEvent_owner(i))
    /\ \A i \in Instances : \A c \in Callers :
           WF_vars(Stop_send(i, c)) /\ WF_vars(Stop_wait(i, c))

(***************************************************************************)
(* The key-value state machine.  Byte strings ([]byte) are sequences of    *)
(* byte codes; a command is its Args: the name, the key, the other         *)
(* arguments.  Arg(cmd, k) is cmd.Args[k].                                 *)
(***************************************************************************)
Arg(cmd, k) == cmd[k + 1]

\* the byte strings "0", "1", "2", "a", "b", "ex", "EX", "nx", "xx"
Str_0 == <<48>>

Str_1 == <<49>>

Str_2 == <<50>>

Str_a == <<97>>

Str_b == <<98>>

Str_ex == <<101, 120>>

Str_EX == <<69, 88>>

Str_nx == <<110, 120>>

Str_xx == <<120, 120>>

\* the keys "k" and "j", and the same with the namespace "n" in front: "n:k", "n:j"
Key_k == <<107>>

Key_j == <<106>>

WithNamespace(key) == <<110, 58>> \o key

\* bytes.ToLower / strings.ToLower
ToLower(s) == [x \in 1..Len(s) |-> IF s[x] >= 65 /\ s[x] <= 90 THEN s[x] + 32 ELSE s[x]]

\* the digits of strconv.ParseInt(s, 10, 64), from the left
RECURSIVE parseDigits(_, _)
parseDigits(s, acc) ==
    IF s = <<>> THEN [val |-> acc, err |-> "nil"]
    ELSE IF s[1] < 48 \/ s[1] > 57 THEN [val |-> 0, err |-> "ErrSyntax"]
    ELSE parseDigits(Tail(s), acc * 10 + (s[1] - 48))

\* strconv.ParseInt(string(s), 10, 64): an optional sign and decimal digits
ParseInt(s) ==
    IF s = <<>> THEN [val |-> 0, err |-> "ErrSyntax"]
    ELSE IF s[1] \in {43, 45}
    THEN IF Tail(s) = <<>> THEN [val |-> 0, err |-> "ErrSyntax"]
         ELSE Bind(parseDigits(Tail(s), 0), LAMBDA r :
                 IF r.err # "nil" THEN r
                 ELSE [val |-> IF s[1] = 45 THEN 0 - r.val ELSE r.val, err |-> "nil"])
    ELSE parseDigits(s, 0)

\* the decimal digits of a natural number
RECURSIVE formatNat(_)
formatNat(n) == IF n < 10 THEN <<48 + n>> ELSE Append(formatNat(n \div 10), 48 + (n % 10))

\* strconv.FormatInt(n, 10)
FormatInt(n) == IF n < 0 THEN <<45>> \o formatNat(0 - n) ELSE formatNat(n)

\* common.CutNamesapce: the key without its namespace, the part up to the first ':'
RECURSIVE cutAt(_)
cutAt(s) ==
    IF s = <<>> THEN [key |-> <<>>, err |-> "ErrInvalidRedisKey"]
    ELSE IF s[1] = 58
    THEN (IF Tail(s) = <<>> THEN [key |-> <<>>, err |-> "ErrInvalidRedisKey"]
          ELSE [key |-> Tail(s), err |-> "nil"])
    ELSE cutAt(Tail(s))

CutNamesapce(rawKey) == cutAt(rawKey)

\* getExSecs(ex, secs)
getExSecs(ex, secs) ==
    IF ToLower(ex) # Str_ex THEN [val |-> 0, err |-> "ErrInvalidArgs"]
    ELSE Bind(ParseInt(secs), LAMBDA n :
            IF n.err # "nil" THEN [val |-> 0, err |-> n.err]
            ELSE IF n.val <= 0 THEN [val |-> 0, err |-> "ErrInvalidTTL"]
            ELSE [val |-> n.val, err |-> "nil"])

\* getExNxXXArgs that takes XX although NX or XX was given before
RECURSIVE getExNxXXArgsFrom_xxUnchecked(_, _, _, _, _, _)
getExNxXXArgsFrom_xxUnchecked(opts, i, nxorxx, duration, createOnly, updateOnly) ==
    IF i >= Len(opts)
    THEN [duration |-> duration, createOnly |-> createOnly, updateOnly |-> updateOnly,
          err |-> "nil"]
    ELSE Bind(ToLower(opts[i + 1]), LAMBDA op :
            IF op = Str_nx
            THEN (IF nxorxx
                  THEN [duration |-> duration, createOnly |-> createOnly,
                        updateOnly |-> updateOnly, err |-> "ErrInvalidArgs"]
                  ELSE getExNxXXArgsFrom_xxUnchecked(opts, i + 1, TRUE, duration, TRUE,
                                                     updateOnly))
            ELSE IF op = Str_xx
            THEN getExNxXXArgsFrom_xxUnchecked(opts, i + 1, TRUE, duration, createOnly, TRUE)
            ELSE IF op = Str_ex
            THEN (IF Len(opts) <= i + 1
                  THEN [duration |-> duration, createOnly |-> createOnly,
                        updateOnly |-> updateOnly, err |-> "ErrInvalidArgs"]
                  ELSE Bind(ParseInt(opts[i + 2]), LAMBDA d :
                          IF d.err # "nil"
                          THEN [duration |-> d.val, createOnly |-> createOnly,
                                updateOnly |-> updateOnly, err |-> "ErrInvalidArgs"]
                          ELSE IF d.val <= 0
                          THEN [duration |-> d.val, createOnly |-> createOnly,
                                updateOnly |-> updateOnly, err |-> "ErrInvalidTTL"]
                          ELSE getExNxXXArgsFrom_xxUnchecked(opts, i + 2, nxorxx, d.val,
                                                             createOnly, updateOnly)))
            ELSE [duration |-> duration, createOnly |-> createOnly,
                  updateOnly |-> updateOnly, err |-> "ErrInvalidArgs"])

\* getExNxXXArgs(opts), from option i (counted from 0) on
RECURSIVE getExNxXXArgsFrom(_, _, _, _, _, _)
getExNxXXArgsFrom(opts, i, nxorxx, duration, createOnly, updateOnly) ==
    IF i >= Len(opts)
    THEN [duration |-> duration, createOnly |-> createOnly, updateOnly |-> updateOnly,
          err |-> "nil"]
    ELSE Bind(ToLower(opts[i + 1]), LAMBDA op :
            IF op = Str_nx
            THEN (IF nxorxx
                  THEN [duration |-> duration, createOnly |-> createOnly,
                        updateOnly |-> updateOnly, err |-> "ErrInvalidArgs"]
                  ELSE getExNxXXArgsFrom(opts, i + 1, TRUE, duration, TRUE, updateOnly))
            ELSE IF op = Str_xx
            THEN (IF nxorxx
                  THEN [duration |-> duration, createOnly |-> createOnly,
                        updateOnly |-> updateOnly, err |-> "ErrInvalidArgs"]
                  ELSE getExNxXXArgsFrom(opts, i + 1, TRUE, duration, createOnly, TRUE))
            ELSE IF op = Str_ex
            THEN (IF Len(opts) <= i + 1
                  THEN [duration |-> duration, createOnly |-> createOnly,
                        updateOnly |-> updateOnly, err |-> "ErrInvalidArgs"]
                  ELSE Bind(ParseInt(opts[i + 2]), LAMBDA d :
                          IF d.err # "nil"
                          THEN [duration |-> d.val, createOnly |-> createOnly,
                                updateOnly |-> updateOnly, err |-> "ErrInvalidArgs"]
                          ELSE IF d.val <= 0
                          THEN [duration |-> d.val, createOnly |-> createOnly,
                                updateOnly |-> updateOnly, err |-> "ErrInvalidTTL"]
                          ELSE getExNxXXArgsFrom(opts, i + 2, nxorxx, d.val,
                                                 createOnly, updateOnly)))
            ELSE [duration |-> duration, createOnly |-> createOnly,
                  updateOnly |-> updateOnly, err |-> "ErrInvalidArgs"])

getExNxXXArgs(opts) == getExNxXXArgsFrom(opts, 0, FALSE, 0, FALSE, FALSE)

\* the values a handler returns: an int64, a byte string, nil
Int64(n) == [int |-> n]

Bulk(b) == [bulk |-> b]

Nil == [nil |-> TRUE]

(***************************************************************************)
(* The store of one node (package rockredis): kv holds, for each key      *)
(* that exists, its value and the time it expires at (0: never); bits the  *)
(* offsets of the set bits of each bitmap; hll the elements counted in     *)
(* each HyperLogLog.                                                        *)
(***************************************************************************)
EmptyStore == [kv |-> <<>>, bits |-> <<>>, hll |-> <<>>]

\* nanoseconds in a second, and the largest int64 (the largest integer TLC
\* has stands for 2^63-1)
nanosPerSec == 1000000000

mathMaxInt64 == 2147483647

MaxBitOffset == 7

PutKey(f, k, v) == [x \in (DOMAIN f) \cup {k} |-> IF x = k THEN v ELSE f[x]]

DelKey(f, k) == [x \in (DOMAIN f) \ {k} |-> f[x]]

ExpireAt(ts, sec) == IF sec > 0 THEN ts + sec * nanosPerSec ELSE 0

\* KVExists(key)
KVExists(s, k) == IF k \in DOMAIN s.kv THEN 1 ELSE 0

\* KVGet(key): the value, nil (the empty byte string to bytes.Equal) when absent
KVGet(s, k) == IF k \in DOMAIN s.kv THEN s.kv[k].v ELSE <<>>

KVSet(s, ts, k, v) ==
    [ret |-> Nil, err |-> "nil", s |-> [s EXCEPT !.kv = PutKey(@, k, [v |-> v, exp |-> 0])]]

KVSetWithOpts(s, ts, k, v, sec, createOnly, updateOnly) ==
    IF createOnly /\ k \in DOMAIN s.kv THEN [ret |-> Int64(0), err |-> "nil", s |-> s]
    ELSE IF updateOnly /\ k \notin DOMAIN s.kv THEN [ret |-> Int64(0), err |-> "nil", s |-> s]
    ELSE [ret |-> Int64(1), err |-> "nil",
          s |-> [s EXCEPT !.kv = PutKey(@, k, [v |-> v, exp |-> ExpireAt(ts, sec)])]]

KVGetSet(s, ts, k, v) ==
    [ret |-> IF k \in DOMAIN s.kv THEN Bulk(s.kv[k].v) ELSE Nil, err |-> "nil",
     s |-> [s EXCEPT !.kv = PutKey(@, k, [v |-> v, exp |-> 0])]]

SetNX(s, ts, k, v) ==
    IF k \in DOMAIN s.kv THEN [ret |-> Int64(0), err |-> "nil", s |-> s]
    ELSE [ret |-> Int64(1), err |-> "nil",
          s |-> [s EXCEPT !.kv = PutKey(@, k, [v |-> v, exp |-> 0])]]

SetIfEQ(s, ts, k, oldV, newV, sec) ==
    IF KVGet(s, k) # oldV THEN [ret |-> Int64(0), err |-> "nil", s |-> s]
    ELSE [ret |-> Int64(1), err |-> "nil",
          s |-> [s EXCEPT !.kv = PutKey(@, k, [v |-> newV, exp |-> ExpireAt(ts, sec)])]]

DelIfEQ(s, ts, k, oldV) ==
    IF KVGet(s, k) # oldV THEN [ret |-> Int64(0), err |-> "nil", s |-> s]
    ELSE [ret |-> Int64(1), err |-> "nil", s |-> [s EXCEPT !.kv = DelKey(@, k)]]

\* MSet(ts, kvlist...): the records in their order
RECURSIVE MSetFrom(_, _)
MSetFrom(s, kvlist) ==
    IF kvlist = <<>> THEN s
    ELSE MSetFrom([s EXCEPT !.kv = PutKey(@, kvlist[1].Key, [v |-> kvlist[1].Value, exp |-> 0])],
                  Tail(kvlist))

MSet(s, ts, kvlist) == [ret |-> Nil, err |-> "nil", s |-> MSetFrom(s, kvlist)]

IncrBy(s, ts, k, delta) ==
    Bind(IF KVGet(s, k) = <<>> THEN [val |-> 0, err |-> "nil"] ELSE ParseInt(KVGet(s, k)),
         LAMBDA cur :
            IF cur.err # "nil" THEN [ret |-> Int64(0), err |-> "ErrNotInteger", s |-> s]
            ELSE IF delta > 0 /\ cur.val > mathMaxInt64 - delta
            THEN [ret |-> Int64(0), err |-> "ErrOverflow", s |-> s]
            ELSE [ret |-> Int64(cur.val + delta), err |-> "nil",
                  s |-> [s EXCEPT !.kv = PutKey(@, k,
                            [v |-> FormatInt(cur.val + delta),
                             exp |-> IF k \in DOMAIN s.kv THEN s.kv[k].exp ELSE 0])]])

Incr(s, ts, k) == IncrBy(s, ts, k, 1)

\* DelKeys(keys...): the number of keys that existed
RECURSIVE DelKeysFrom(_, _, _)
DelKeysFrom(s, keys, cnt) ==
    IF keys = <<>> THEN [ret |-> Int64(cnt), err |-> "nil", s |-> s]
    ELSE DelKeysFrom([s EXCEPT !.kv = DelKey(@, keys[1])], Tail(keys),
                     cnt + KVExists(s, keys[1]))

DelKeys(s, keys) == DelKeysFrom(s, keys, 0)

StoreAppend(s, ts, k, v) ==
    Bind(KVGet(s, k) \o v, LAMBDA nv :
        [ret |-> Int64(Len(nv)), err |-> "nil",
         s |-> [s EXCEPT !.kv = PutKey(@, k,
                   [v |-> nv, exp |-> IF k \in DOMAIN s.kv THEN s.kv[k].exp ELSE 0])]])

\* SetRange(ts, key, offset, value): the value written at offset, zero bytes
\* filling the gap
SetRange(s, ts, k, offset, v) ==
    IF offset < 0 THEN [ret |-> Int64(0), err |-> "ErrOffsetOutOfRange", s |-> s]
    ELSE Bind(KVGet(s, k), LAMBDA old :
         Bind([x \in 1..Max(Len(old), offset + Len(v)) |->
                  IF x > offset /\ x <= offset + Len(v) THEN v[x - offset]
                  ELSE IF x <= Len(old) THEN old[x] ELSE 0], LAMBDA nv :
            [ret |-> Int64(Len(nv)), err |-> "nil",
             s |-> [s EXCEPT !.kv = PutKey(@, k,
                       [v |-> nv, exp |-> IF k \in DOMAIN s.kv THEN s.kv[k].exp ELSE 0])]]))

\* BitSetV2(ts, key, offset, on): the bit as it was
BitSetV2(s, ts, k, offset, on) ==
    IF offset < 0 \/ offset > MaxBitOffset THEN [ret |-> Int64(0), err |-> "ErrBitOverflow", s |-> s]
    ELSE IF on \notin {0, 1} THEN [ret |-> Int64(0), err |-> "ErrBitValue", s |-> s]
    ELSE Bind(IF k \in DOMAIN s.bits THEN s.bits[k] ELSE {}, LAMBDA old :
            [ret |-> Int64(IF offset \in old THEN 1 ELSE 0), err |-> "nil",
             s |-> [s EXCEPT !.bits = PutKey(@, k, IF on = 1 THEN old \cup {offset}
                                                    ELSE old \ {offset})]])

BitClear(s, ts, k) ==
    IF k \in DOMAIN s.bits
    THEN [ret |-> Int64(1), err |-> "nil", s |-> [s EXCEPT !.bits = DelKey(@, k)]]
    ELSE [ret |-> Int64(0), err |-> "nil", s |-> s]

\* PFAdd(ts, key, elems...): 1 when the sketch changed
PFAdd(s, ts, k, elems) ==
    Bind(IF k \in DOMAIN s.hll THEN s.hll[k] ELSE {}, LAMBDA old :
    Bind(old \cup {elems[x] : x \in 1..Len(elems)}, LAMBDA new :
        [ret |-> Int64(IF new # old \/ k \notin DOMAIN s.hll THEN 1 ELSE 0), err |-> "nil",
         s |-> [s EXCEPT !.hll = PutKey(@, k, new)]]))

(***************************************************************************)
(* kvStoreSM: the handlers that apply a committed write command.  kvsm is  *)
(* the state machine of one node, its store and the wall clock of the      *)
(* node (kvsm.now, what time.Now() would give).                            *)
(***************************************************************************)
\* localSetCommand that takes the time from the wall clock of the node.
localSetCommand_wallClock(kvsm, cmd, ts) ==
    IF Len(cmd) > 3
    THEN Bind(getExNxXXArgs(SubSeq(cmd, 4, Len(cmd))), LAMBDA o :
            IF o.err # "nil" THEN [ret |-> Nil, err |-> o.err, s |-> kvsm.store]
            ELSE KVSetWithOpts(kvsm.store, kvsm.now, Arg(cmd, 1), Arg(cmd, 2),
                               o.duration, o.createOnly, o.updateOnly))
    ELSE Bind(KVSet(kvsm.store, kvsm.now, Arg(cmd, 1), Arg(cmd, 2)), LAMBDA r :
            [ret |-> Int64(1), err |-> r.err, s |-> r.s])

localSetCommand(kvsm, cmd, ts) ==
    IF Len(cmd) > 3
    THEN Bind(getExNxXXArgs(SubSeq(cmd, 4, Len(cmd))), LAMBDA o :
            IF o.err # "nil" THEN [ret |-> Nil, err |-> o.err, s |-> kvsm.store]
            ELSE KVSetWithOpts(kvsm.store, ts, Arg(cmd, 1), Arg(cmd, 2),
                               o.duration, o.createOnly, o.updateOnly))
    ELSE Bind(KVSet(kvsm.store, ts, Arg(cmd, 1), Arg(cmd, 2)), LAMBDA r :
            [ret |-> Int64(1), err |-> r.err, s |-> r.s])

localGetSetCommand(kvsm, cmd, ts) == KVGetSet(kvsm.store, ts, Arg(cmd, 1), Arg(cmd, 2))

localSetnxCommand(kvsm, cmd, ts) == SetNX(kvsm.store, ts, Arg(cmd, 1), Arg(cmd, 2))

localSetIfEQCommand(kvsm, cmd, ts) ==
    IF Len(cmd) = 6
    THEN Bind(getExSecs(Arg(cmd, 4), Arg(cmd, 5)), LAMBDA sec :
            IF sec.err # "nil" THEN [ret |-> Nil, err |-> sec.err, s |-> kvsm.store]
            ELSE SetIfEQ(kvsm.store, ts, Arg(cmd, 1), Arg(cmd, 2), Arg(cmd, 3), sec.val))
    ELSE SetIfEQ(kvsm.store, ts, Arg(cmd, 1), Arg(cmd, 2), Arg(cmd, 3), 0)

localDelIfEQCommand(kvsm, cmd, ts) == DelIfEQ(kvsm.store, ts, Arg(cmd, 1), Arg(cmd, 2))

\* the KVRecords of cmd.Args[1:], two arguments each
RECURSIVE kvlistOf(_)
kvlistOf(args) ==
    IF Len(args) < 2 THEN <<>>
    ELSE <<[Key |-> args[1], Value |-> args[2]]>> \o kvlistOf(SubSeq(args, 3, Len(args)))

localMSetCommand(kvsm, cmd, ts) == MSet(kvsm.store, ts, kvlistOf(Tail(cmd)))

localIncrCommand(kvsm, cmd, ts) == Incr(kvsm.store, ts, Arg(cmd, 1))

localIncrByCommand(kvsm, cmd, ts) ==
    Bind(ParseInt(Arg(cmd, 2)), LAMBDA v :
        IF v.err # "nil" THEN [ret |-> Int64(0), err |-> v.err, s |-> kvsm.store]
        ELSE IncrBy(kvsm.store, ts, Arg(cmd, 1), v.val))

localDelCommand(kvsm, cmd, ts) == DelKeys(kvsm.store, Tail(cmd))

localPFAddCommand(kvsm, cmd, ts) ==
    PFAdd(kvsm.store, ts, Arg(cmd, 1), SubSeq(cmd, 3, Len(cmd)))

localBitSetV2Command(kvsm, cmd, ts) ==
    Bind(ParseInt(Arg(cmd, 2)), LAMBDA offset :
        IF offset.err # "nil" THEN [ret |-> Int64(0), err |-> offset.err, s |-> kvsm.store]
        ELSE Bind(ParseInt(Arg(cmd, 3)), LAMBDA on :
                IF on.err # "nil" THEN [ret |-> Int64(0), err |-> on.err, s |-> kvsm.store]
                ELSE BitSetV2(kvsm.store, ts, Arg(cmd, 1), offset.val, on.val)))

localBitSetCommand(kvsm, cmd, ts) == localBitSetV2Command(kvsm, cmd, ts)

localBitClearCommand(kvsm, cmd, ts) == BitClear(kvsm.store, ts, Arg(cmd, 1))

localAppendCommand(kvsm, cmd, ts) == StoreAppend(kvsm.store, ts, Arg(cmd, 1), Arg(cmd, 2))

localSetRangeCommand(kvsm, cmd, ts) ==
    Bind(ParseInt(Arg(cmd, 2)), LAMBDA offset :
        IF offset.err # "nil" THEN [ret |-> Int64(0), err |-> offset.err, s |-> kvsm.store]
        ELSE SetRange(kvsm.store, ts, Arg(cmd, 1), offset.val, Arg(cmd, 3)))

\* the handler registered for the name of the command
ApplyCommand(kvsm, cmd, ts) ==
    CASE Arg(cmd, 0) = "set" -> localSetCommand(kvsm, cmd, ts)
      [] Arg(cmd, 0) = "getset" -> localGetSetCommand(kvsm, cmd, ts)
      [] Arg(cmd, 0) = "setnx" -> localSetnxCommand(kvsm, cmd, ts)
      [] Arg(cmd, 0) = "setifeq" -> localSetIfEQCommand(kvsm, cmd, ts)
      [] Arg(cmd, 0) = "delifeq" -> localDelIfEQCommand(kvsm, cmd, ts)
      [] Arg(cmd, 0) = "mset" -> localMSetCommand(kvsm, cmd, ts)
      [] Arg(cmd, 0) = "incr" -> localIncrCommand(kvsm, cmd, ts)
      [] Arg(cmd, 0) = "incrby" -> localIncrByCommand(kvsm, cmd, ts)
      [] Arg(cmd, 0) = "del" -> localDelCommand(kvsm, cmd, ts)
      [] Arg(cmd, 0) = "pfadd" -> localPFAddCommand(kvsm, cmd, ts)
      [] Arg(cmd, 0) = "setbit" -> localBitSetCommand(kvsm, cmd, ts)
      [] Arg(cmd, 0) = "bitclear" -> localBitClearCommand(kvsm, cmd, ts)
      [] Arg(cmd, 0) = "append" -> localAppendCommand(kvsm, cmd, ts)
      [] Arg(cmd, 0) = "setrange" -> localSetRangeCommand(kvsm, cmd, ts)

(***************************************************************************)
(* KVNode: the handlers that take a write command from a client.  Each     *)
(* answers at once (propose FALSE, with rsp and err) or has the command    *)
(* proposed with its first key rebuilt (propose TRUE, with cmd).           *)
(***************************************************************************)
Answer(rsp, err) == [propose |-> FALSE, cmd |-> <<>>, rsp |-> rsp, err |-> err]

\* rebuildFirstKeyAndPropose, up to the proposal: the namespace is cut from
\* the first key
rebuildFirstKeyAndPropose(nd, cmd) ==
    Bind(CutNamesapce(Arg(cmd, 1)), LAMBDA key :
        IF key.err # "nil" THEN Answer(Nil, key.err)
        ELSE [propose |-> TRUE, cmd |-> [cmd EXCEPT ![2] = key.key], rsp |-> Nil, err |-> "nil"])

setCommand(nd, cmd) ==
    IF Len(cmd) > 3 /\ getExNxXXArgs(SubSeq(cmd, 4, Len(cmd))).err # "nil"
    THEN Answer(Nil, getExNxXXArgs(SubSeq(cmd, 4, Len(cmd))).err)
    ELSE IF Len(cmd) < 3 THEN Answer(Nil, "ErrWrongNumberArgs")
    ELSE rebuildFirstKeyAndPropose(nd, cmd)

\* the function setCommand hands to rebuildFirstKeyAndPropose for the response
setCommand_response(rsp, err) ==
    IF err # "nil" THEN [rsp |-> Nil, err |-> err]
    ELSE IF rsp = Int64(0) THEN [rsp |-> Nil, err |-> "nil"]
    ELSE [rsp |-> Bulk(<<79, 75>>), err |-> "nil"]

\* setnxCommand that answers 1 when the key exists.
setnxCommand_answerOne(nd, cmd) ==
    IF Len(cmd) # 3 THEN Answer(Nil, "ErrWrongNumberArgs")
    ELSE Bind(CutNamesapce(Arg(cmd, 1)), LAMBDA key :
            IF key.err # "nil" THEN Answer(Nil, key.err)
            ELSE IF KVExists(nd.store, key.key) = 1 THEN Answer(Int64(1), "nil")
            ELSE rebuildFirstKeyAndPropose(nd, cmd))

setnxCommand(nd, cmd) ==
    IF Len(cmd) # 3 THEN Answer(Nil, "ErrWrongNumberArgs")
    ELSE Bind(CutNamesapce(Arg(cmd, 1)), LAMBDA key :
            IF key.err # "nil" THEN Answer(Nil, key.err)
            ELSE IF KVExists(nd.store, key.key) = 1 THEN Answer(Int64(0), "nil")
            ELSE rebuildFirstKeyAndPropose(nd, cmd))

\* setIfEQCommand that answers 1 when the old value does not match.
setIfEQCommand_answerOne(nd, cmd) ==
    IF Len(cmd) # 4 /\ Len(cmd) # 6 THEN Answer(Nil, "ErrWrongNumberArgs")
    ELSE IF Len(cmd) = 6 /\ getExSecs(Arg(cmd, 4), Arg(cmd, 5)).err # "nil"
    THEN Answer(Nil, getExSecs(Arg(cmd, 4), Arg(cmd, 5)).err)
    ELSE Bind(CutNamesapce(Arg(cmd, 1)), LAMBDA key :
            IF key.err # "nil" THEN Answer(Nil, key.err)
            ELSE IF KVGet(nd.store, key.key) # Arg(cmd, 2) THEN Answer(Int64(1), "nil")
            ELSE rebuildFirstKeyAndPropose(nd, cmd))

setIfEQCommand(nd, cmd) ==
    IF Len(cmd) # 4 /\ Len(cmd) # 6 THEN Answer(Nil, "ErrWrongNumberArgs")
    ELSE IF Len(cmd) = 6 /\ getExSecs(Arg(cmd, 4), Arg(cmd, 5)).err # "nil"
    THEN Answer(Nil, getExSecs(Arg(cmd, 4), Arg(cmd, 5)).err)
    ELSE Bind(CutNamesapce(Arg(cmd, 1)), LAMBDA key :
            IF key.err # "nil" THEN Answer(Nil, key.err)
            ELSE IF KVGet(nd.store, key.key) # Arg(cmd, 2) THEN Answer(Int64(0), "nil")
            ELSE rebuildFirstKeyAndPropose(nd, cmd))

delIfEQCommand(nd, cmd) ==
    IF Len(cmd) # 3 THEN Answer(Nil, "ErrWrongNumberArgs")
    ELSE Bind(CutNamesapce(Arg(cmd, 1)), LAMBDA key :
            IF key.err # "nil" THEN Answer(Nil, key.err)
            ELSE IF KVGet(nd.store, key.key) # Arg(cmd, 2) THEN Answer(Int64(0), "nil")
            ELSE rebuildFirstKeyAndPropose(nd, cmd))

\* the handler registered for the name of the command
HandleCommand(nd, cmd) ==
    CASE Arg(cmd, 0) = "set" -> setCommand(nd, cmd)
      [] Arg(cmd, 0) = "setnx" -> setnxCommand(nd, cmd)
      [] Arg(cmd, 0) = "setifeq" -> setIfEQCommand(nd, cmd)
      [] Arg(cmd, 0) = "delifeq" -> delIfEQCommand(nd, cmd)

\* what the client is answered once its command has been applied
Response(cmd, r) ==
    IF Arg(cmd, 0) = "set" THEN setCommand_response(r.ret, r.err)
    ELSE [rsp |-> r.ret, err |-> r.err]

(***************************************************************************)
(* The nodes of one raft group.  committed is the log of committed write   *)
(* commands, each with the ts its proposer gave it; every node applies it  *)
(* in order, as far as kvnode[n].applied.  reqs are the commands clients   *)
(* have sent, each with the node that took it, the index it was committed  *)
(* at (0: never proposed) and its response.                                *)
(***************************************************************************)
Nodes == {"a", "b"}

NewKVNode == [store |-> EmptyStore, applied |-> 0, results |-> <<>>]

kvStoreSM(n) == [store |-> kvnode[n].store, now |-> clock[n]]

\* the store after every committed command has been applied
RECURSIVE StoreAfter(_, _)
StoreAfter(s, ents) ==
    IF ents = <<>> THEN s
    ELSE StoreAfter(ApplyCommand([store |-> s, now |-> 0], ents[1].cmd, ents[1].ts).s, Tail(ents))

\* the write commands of the log, first keys rebuilt
WriteCommands ==
    {<<"set", Key_k, Str_1>>, <<"set", Key_k, Str_a, Str_EX, Str_1>>,
     <<"set", Key_k, Str_b, Str_nx>>,
     <<"setnx", Key_k, Str_a>>,
     <<"setifeq", Key_k, Str_a, Str_b>>, <<"setifeq", Key_k, Str_1, Str_2, Str_ex, Str_1>>,
     <<"delifeq", Key_k, Str_a>>,
     <<"getset", Key_k, Str_b>>,
     <<"mset", Key_k, Str_1, Key_j, Str_a>>,
     <<"incr", Key_k>>, <<"incrby", Key_k, Str_2>>,
     <<"del", Key_k, Key_j>>,
     <<"append", Key_k, Str_1>>,
     <<"setrange", Key_k, Str_2, Str_a>>,
     <<"setbit", Key_k, Str_1, Str_1>>,
     <<"bitclear", Key_k>>,
     <<"pfadd", Key_k, Str_a>>}

\* the commands clients send for the key "k" of the namespace "n"
SetnxCommands ==
    {<<"setnx", WithNamespace(Key_k), Str_a>>, <<"setnx", WithNamespace(Key_k), Str_b>>}

ClientCommands ==
    SetnxCommands \cup
    {<<"set", WithNamespace(Key_k), Str_a>>,
     <<"setifeq", WithNamespace(Key_k), Str_a, Str_b>>,
     <<"delifeq", WithNamespace(Key_k), Str_a>>}

\* the words of an option list, and the option lists of a SET command
OptionWords == {Str_ex, Str_EX, Str_nx, Str_xx, Str_0, Str_1, Str_2, Str_a}

RECURSIVE OptionLists(_)
OptionLists(n) ==
    IF n = 0 THEN {<<>>}
    ELSE OptionLists(n - 1) \cup
         {Append(o, w) : o \in {x \in OptionLists(n - 1) : Len(x) = n - 1}, w \in OptionWords}

\* the wall clock of a node moves on
Tick(n) ==
    /\ clock[n] < MaxClock
    /\ clock' = [clock EXCEPT ![n] = @ + 1]
    /\ UNCHANGED <<committed, kvnode, reqs, logVars, lockVars, engVars>>

\* consensus commits a write command that node n proposed, with the ts of n
CommitEntry(n, cmd) ==
    /\ Len(committed) < MaxCmds
    /\ committed' = Append(committed, [cmd |-> cmd, ts |-> clock[n]])
    /\ UNCHANGED <<kvnode, clock, reqs, logVars, lockVars, engVars>>

\* node n applies the next committed command, and answers the clients that
\* wait for it on n
ApplyEntry(n) ==
    /\ kvnode[n].applied < Len(committed)
    /\ \E e \in {committed[kvnode[n].applied + 1]} :
       \E r \in {ApplyCommand(kvStoreSM(n), e.cmd, e.ts)} :
          /\ kvnode' = [kvnode EXCEPT ![n] =
                           [store |-> r.s, applied |-> @.applied + 1,
                            results |-> Append(@.results, [ret |-> r.ret, err |-> r.err])]]
          /\ reqs' = [x \in DOMAIN reqs |->
                         IF reqs[x].node = n /\ reqs[x].idx = kvnode[n].applied + 1
                         THEN [reqs[x] EXCEPT !.done = TRUE,
                                              !.rsp = Response(e.cmd, r).rsp,
                                              !.err = Response(e.cmd, r).err]
                         ELSE reqs[x]]
    /\ UNCHANGED <<committed, clock, logVars, lockVars, engVars>>

\* does the log hold, past what node n has applied, a write of the key
Lagging(n, key) ==
    \E j \in (kvnode[n].applied + 1)..Len(committed) : Arg(committed[j].cmd, 1) = key

\* Node n takes a write command from a client: its handler answers, or the
\* command is proposed and committed with the ts of n.  would is the
\* response an applier gives the command at this place of the log, lagging
\* whether n has yet to apply a committed write of the key.
KVCall(n, cmd) ==
    /\ Len(reqs) < MaxReqs
    /\ \E h \in {HandleCommand(kvStoreSM(n), cmd)} :
       \E key \in {CutNamesapce(Arg(cmd, 1)).key} :
       \E w \in {Response(cmd, ApplyCommand([store |-> StoreAfter(EmptyStore, committed),
                                             now |-> clock[n]],
                                            [cmd EXCEPT ![2] = key], clock[n]))} :
          IF h.propose
          THEN /\ Len(committed) < MaxCmds
               /\ committed' = Append(committed, [cmd |-> h.cmd, ts |-> clock[n]])
               /\ reqs' = Append(reqs, [node |-> n, cmd |-> cmd, idx |-> Len(committed) + 1,
                                        done |-> FALSE, rsp |-> Nil, err |-> "nil",
                                        would |-> w, lagging |-> Lagging(n, key)])
          ELSE /\ committed' = committed
               /\ reqs' = Append(reqs, [node |-> n, cmd |-> cmd, idx |-> 0,
                                        done |-> TRUE, rsp |-> h.rsp, err |-> h.err,
                                        would |-> w, lagging |-> Lagging(n, key)])
    /\ UNCHANGED <<kvnode, clock, logVars, lockVars, engVars>>

\* a client sends node n the first command: SET n:k a with the options opts
SetCall(n, opts) ==
    /\ reqs = <<>>
    /\ KVCall(n, <<"set", WithNamespace(Key_k), Str_a>> \o opts)

\* two appliers and the log of committed write commands
NextApply ==
    \/ \E n \in Nodes : Tick(n)
    \/ \E n \in Nodes : \E cmd \in WriteCommands : CommitEntry(n, cmd)
    \/ \E n \in Nodes : ApplyEntry(n)

\* clients send SETNX commands for one key to the nodes
NextSetnx ==
    \/ \E n \in Nodes : \E cmd \in SetnxCommands : KVCall(n, cmd)
    \/ \E n \in Nodes : ApplyEntry(n)

\* clients send SET, SETNX, SETIFEQ and DELIFEQ commands for one key
NextPropose ==
    \/ \E n \in Nodes : \E cmd \in ClientCommands : KVCall(n, cmd)
    \/ \E n \in Nodes : ApplyEntry(n)

\* a client sends one SET command with any option list
NextSet ==
    \/ \E n \in Nodes : \E opts \in OptionLists(MaxOpts) : SetCall(n, opts)
    \/ \E n \in Nodes : ApplyEntry(n)

----------------------------------------------------------------------------
(***************************************************************************)
(* PebbleEng.  One goroutine opens and closes the engine, others read it.  *)
(* rwmutex is the sync.RWMutex: the goroutines that hold it for reading,   *)
(* and whether a goroutine waits for it or holds it for writing (a reader  *)
(* that comes while a writer waits has to wait for the writer).  eng is    *)
(* pe.eng: nil, a pebble.DB that is open, or one that is closed.           *)
(***************************************************************************)
Owners == {"owner"}

Readers == {"r1", "r2"}

\* the reads that take the read lock
LockedReads == {"GetBytes", "MultiGetBytes", "Exist", "GetRef", "GetValueWithOp", "Save"}

NewPebbleEng ==
    [rwmutex |-> [readers |-> {}, writer |-> "none"], eng |-> "nil", engOpened |-> 0,
     quit |-> "open"]

\* a goroutine that is in no call; n counts the calls it has made
NoRead == [op |-> "none", pc |-> "idle", left |-> 0, ret |-> "none", n |-> 0]

IsClosed(e) == e.engOpened = 0

\* OpenEng, up to pe.eng = eng: an error when the engine is not closed
OpenEng(t) ==
    /\ peCalls[t].pc = "idle" /\ peCalls[t].n < MaxOwnerCalls
    /\ IF ~IsClosed(pe)
       THEN /\ peCalls' = [peCalls EXCEPT ![t] = [@ EXCEPT !.op = "OpenEng", !.n = @ + 1,
                                                          !.ret = "open failed since not closed"]]
            /\ pe' = pe
       ELSE /\ peCalls' = [peCalls EXCEPT ![t] = [@ EXCEPT !.op = "OpenEng", !.n = @ + 1,
                                                          !.pc = "StoreInt32", !.ret = "none"]]
            /\ pe' = [pe EXCEPT !.eng = "open"]
    /\ UNCHANGED <<logVars, lockVars, kvVars, wb, msCalls>>

\* OpenEng: atomic.StoreInt32(&pe.engOpened, 1), return nil
OpenEng_StoreInt32(t) ==
    /\ peCalls[t].pc = "StoreInt32"
    /\ pe' = [pe EXCEPT !.engOpened = 1]
    /\ peCalls' = [peCalls EXCEPT ![t] = [@ EXCEPT !.pc = "idle", !.ret = "nil"]]
    /\ UNCHANGED <<logVars, lockVars, kvVars, wb, msCalls>>

\* CloseEng: the call of rwmutex.Lock()
CloseEng_Lock(t) ==
    /\ peCalls[t].pc = "idle" /\ peCalls[t].n < MaxOwnerCalls
    /\ pe.rwmutex.writer = "none"
    /\ pe' = [pe EXCEPT !.rwmutex.writer = "waiting"]
    /\ peCalls' = [peCalls EXCEPT ![t] = [@ EXCEPT !.op = "CloseEng", !.pc = "Lock",
                                                  !.n = @ + 1, !.ret = "none"]]
    /\ UNCHANGED <<logVars, lockVars, kvVars, wb, msCalls>>

\* CloseEng that takes the lock as a reader does
CloseEng_RLock(t) ==
    /\ peCalls[t].pc = "Lock"
    /\ IF pe.eng # "nil" /\ pe.engOpened = 1
       THEN /\ pe' = [pe EXCEPT !.rwmutex.writer = "held", !.engOpened = 0, !.eng = "closed"]
            /\ peCalls' = [peCalls EXCEPT ![t] = [@ EXCEPT !.pc = "Unlock", !.ret = "true"]]
       ELSE /\ pe' = [pe EXCEPT !.rwmutex.writer = "held"]
            /\ peCalls' = [peCalls EXCEPT ![t] = [@ EXCEPT !.pc = "Unlock", !.ret = "false"]]
    /\ UNCHANGED <<logVars, lockVars, kvVars, wb, msCalls>>

\* CloseEng: Lock() returns when no reader holds the lock; with an engine that
\* is open, engOpened goes from 1 to 0 and the engine is closed
CloseEng(t) ==
    /\ peCalls[t].pc = "Lock"
    /\ pe.rwmutex.readers = {}
    /\ IF pe.eng # "nil" /\ pe.engOpened = 1
       THEN /\ pe' = [pe EXCEPT !.rwmutex.writer = "held", !.engOpened = 0, !.eng = "closed"]
            /\ peCalls' = [peCalls EXCEPT ![t] = [@ EXCEPT !.pc = "Unlock", !.ret = "true"]]
       ELSE /\ pe' = [pe EXCEPT !.rwmutex.writer = "held"]
            /\ peCalls' = [peCalls EXCEPT ![t] = [@ EXCEPT !.pc = "Unlock", !.ret = "false"]]
    /\ UNCHANGED <<logVars, lockVars, kvVars, wb, msCalls>>

\* CloseEng: the deferred Unlock, and the return
CloseEng_Unlock(t) ==
    /\ peCalls[t].pc = "Unlock"
    /\ pe' = [pe EXCEPT !.rwmutex.writer = "none"]
    /\ peCalls' = [peCalls EXCEPT ![t] = [@ EXCEPT !.pc = "idle"]]
    /\ UNCHANGED <<logVars, lockVars, kvVars, wb, msCalls>>

\* a locked read: rwmutex.RLock()
Read_RLock(t, op) ==
    /\ peCalls[t].pc = "idle" /\ peCalls[t].n < MaxReads
    /\ pe.rwmutex.writer = "none"
    /\ pe' = [pe EXCEPT !.rwmutex.readers = @ \cup {t}]
    /\ peCalls' = [peCalls EXCEPT ![t] =
                      [op |-> op, pc |-> "IsClosed", ret |-> "none", n |-> @.n + 1,
                       left |-> IF op = "MultiGetBytes" THEN MaxKeys ELSE 1]]
    /\ UNCHANGED <<logVars, lockVars, kvVars, wb, msCalls>>

\* a locked read: errDBEngClosed (for every key) when IsClosed(), with the
\* deferred RUnlock
Read_IsClosed(t) ==
    /\ peCalls[t].pc = "IsClosed"
    /\ IF IsClosed(pe)
       THEN /\ pe' = [pe EXCEPT !.rwmutex.readers = @ \ {t}]
            /\ peCalls' = [peCalls EXCEPT ![t] =
                              [@ EXCEPT !.pc = "idle",
                                        !.ret = IF peCalls[t].op = "GetApproximateSizes"
                                                THEN "sizeList of zeros"
                                                ELSE "errDBEngClosed"]]
       ELSE /\ pe' = pe
            /\ peCalls' = [peCalls EXCEPT ![t] = [@ EXCEPT !.pc = "eng"]]
    /\ UNCHANGED <<logVars, lockVars, kvVars, wb, msCalls>>

\* a locked read: pe.eng.Get (Checkpoint for Save), once for each key; after
\* the last the deferred RUnlock.  The read of an engine that is not open is
\* recorded as the result.
Read_eng(t) ==
    /\ peCalls[t].pc = "eng"
    /\ \E r \in {IF pe.eng = "open" /\ peCalls[t].ret = "none" THEN "none"
                  ELSE IF pe.eng = "open" THEN peCalls[t].ret
                  ELSE "read of an engine not open"} :
          IF peCalls[t].left > 1
          THEN /\ peCalls' = [peCalls EXCEPT ![t] = [@ EXCEPT !.left = @ - 1, !.ret = r]]
               /\ pe' = pe
          ELSE /\ peCalls' = [peCalls EXCEPT ![t] =
                                 [@ EXCEPT !.left = 0, !.pc = "idle",
                                           !.ret = IF r = "none" THEN "nil" ELSE r]]
               /\ pe' = [pe EXCEPT !.rwmutex.readers = @ \ {t}]
    /\ UNCHANGED <<logVars, lockVars, kvVars, wb, msCalls>>

\* A call into pe.eng with no lock held and no test of IsClosed(): the call
\* into an engine that has been closed is recorded as the result.
UseEng(t, op) ==
    /\ peCalls' = [peCalls EXCEPT ![t] =
                      [op |-> op, pc |-> "idle", left |-> 0, n |-> @.n + 1,
                       ret |-> IF pe.eng = "open" THEN "nil" ELSE "use of a closed engine"]]
    /\ pe' = pe
    /\ UNCHANGED <<logVars, lockVars, kvVars, wb, msCalls>>

\* Write: pe.eng.Apply(pwb.wb, pe.wo)
Write(t) ==
    /\ peCalls[t].pc = "idle" /\ peCalls[t].n < MaxReads /\ pe.eng # "nil"
    /\ UseEng(t, "Write")

\* GetStatistics: pe.eng.Metrics()
GetStatistics(t) ==
    /\ peCalls[t].pc = "idle" /\ peCalls[t].n < MaxReads /\ pe.eng # "nil"
    /\ UseEng(t, "GetStatistics")

\* GetBytesNoLock: pe.eng.Get(key)
GetBytesNoLock_eng(t) ==
    /\ peCalls[t].pc = "idle" /\ peCalls[t].n < MaxReads /\ pe.eng # "nil"
    /\ UseEng(t, "GetBytesNoLock")

\* CompactRange, up to rwmutex.RLock() (the two atomic stores before it write
\* counters that nothing here reads)
CompactRange(t) ==
    /\ peCalls[t].pc = "idle" /\ peCalls[t].n < MaxReads /\ pe.eng # "nil"
    /\ pe.rwmutex.writer = "none"
    /\ pe' = [pe EXCEPT !.rwmutex.readers = @ \cup {t}]
    /\ peCalls' = [peCalls EXCEPT ![t] =
                      [op |-> "CompactRange", pc |-> "closed", ret |-> "none",
                       n |-> @.n + 1, left |-> 0]]
    /\ UNCHANGED <<logVars, lockVars, kvVars, wb, msCalls>>

\* CompactRange: closed := pe.IsClosed(), RUnlock(), return when closed
CompactRange_IsClosed(t) ==
    /\ peCalls[t].pc = "closed"
    /\ pe' = [pe EXCEPT !.rwmutex.readers = @ \ {t}]
    /\ peCalls' = IF IsClosed(pe)
                  THEN [peCalls EXCEPT ![t] = [@ EXCEPT !.pc = "idle", !.ret = "nil"]]
                  ELSE [peCalls EXCEPT ![t] = [@ EXCEPT !.pc = "Compact"]]
    /\ UNCHANGED <<logVars, lockVars, kvVars, wb, msCalls>>

\* CompactRange: pe.eng.Compact(rg.Start, rg.Limit), with the lock released
CompactRange_Compact(t) ==
    /\ peCalls[t].pc = "Compact"
    /\ peCalls' = [peCalls EXCEPT ![t] =
                      [@ EXCEPT !.pc = "idle",
                                !.ret = IF pe.eng = "open" THEN "nil"
                                        ELSE "use of a closed engine"]]
    /\ pe' = pe
    /\ UNCHANGED <<logVars, lockVars, kvVars, wb, msCalls>>

\* CloseAll: the select on pe.quit
CloseAll(t) ==
    /\ peCalls[t].pc = "idle" /\ peCalls[t].n < MaxReads /\ pe.eng # "nil"
    /\ peCalls' = [peCalls EXCEPT ![t] =
                      [op |-> "CloseAll", ret |-> "none", n |-> @.n + 1, left |-> 0,
                       pc |-> IF pe.quit = "closed" THEN "CloseEng" ELSE "close"]]
    /\ pe' = pe
    /\ UNCHANGED <<logVars, lockVars, kvVars, wb, msCalls>>

\* CloseAll, default case: close(pe.quit), which panics on a closed channel
CloseAll_close(t) ==
    /\ peCalls[t].pc = "close"
    /\ IF pe.quit = "closed"
       THEN /\ peCalls' = [peCalls EXCEPT ![t] =
                              [@ EXCEPT !.pc = "idle",
                                        !.ret = "panic: close of closed channel"]]
            /\ pe' = pe
       ELSE /\ peCalls' = [peCalls EXCEPT ![t] = [@ EXCEPT !.pc = "CloseEng"]]
            /\ pe' = [pe EXCEPT !.quit = "closed"]
    /\ UNCHANGED <<logVars, lockVars, kvVars, wb, msCalls>>

\* CloseAll: pe.CloseEng(), the call of rwmutex.Lock()
CloseAll_CloseEng(t) ==
    /\ peCalls[t].pc = "CloseEng"
    /\ pe.rwmutex.writer = "none"
    /\ pe' = [pe EXCEPT !.rwmutex.writer = "waiting"]
    /\ peCalls' = [peCalls EXCEPT ![t] = [@ EXCEPT !.pc = "Lock"]]
    /\ UNCHANGED <<logVars, lockVars, kvVars, wb, msCalls>>

\* one goroutine opens and closes the engine; the others write, compact, read
\* sizes and statistics, read without the lock, and close all
NextEngineOps ==
    \/ \E t \in Owners :
          \/ OpenEng(t)
          \/ OpenEng_StoreInt32(t)
          \/ CloseEng_Lock(t)
    \/ \E t \in Owners \cup Readers :
          \/ CloseEng(t)
          \/ CloseEng_Unlock(t)
    \/ \E t \in Readers :
          \/ CloseAll(t)
          \/ CloseAll_close(t)
          \/ CloseAll_CloseEng(t)
          \/ Write(t)
          \/ GetStatistics(t)
          \/ GetBytesNoLock_eng(t)
          \/ CompactRange(t)
          \/ CompactRange_IsClosed(t)
          \/ CompactRange_Compact(t)
          \/ Read_RLock(t, "GetApproximateSizes")
          \/ Read_IsClosed(t)
          \/ Read_eng(t)

\* one goroutine opens and closes the engine, the others read
NextEngine ==
    \/ \E t \in Owners :
          \/ OpenEng(t)
          \/ OpenEng_StoreInt32(t)
          \/ CloseEng_Lock(t)
          \/ CloseEng(t)
          \/ CloseEng_Unlock(t)
    \/ \E t \in Readers :
          \/ \E op \in LockedReads : Read_RLock(t, op)
          \/ Read_IsClosed(t)
          \/ Read_eng(t)

----------------------------------------------------------------------------
(***************************************************************************)
(* RocksStorage called from two goroutines.  "Most methods are run on the  *)
(* raft goroutine, but Append() is run on an application goroutine": the   *)
(* goroutine app calls Append, the goroutine raft the other methods.  A    *)
(* step is one statement on the shared fields: a section under ms.Lock(),  *)
(* an atomic load or store of lastIndex, a seek, a call on the batch or    *)
(* its commit.  No method holds the mutex across two of these.             *)
(***************************************************************************)
Goroutines == {"raft", "app"}

NoMsCall ==
    [op |-> "none", pc |-> "idle", es |-> <<>>, c |-> 0, snap |-> EmptySnap,
     first |-> 0, last |-> 0, idx |-> 0, term |-> 0, err |-> "nil",
     built |-> <<>>, inBatch |-> FALSE, n |-> 0]

\* the storage, the batch and the locals a step leaves
Shared(l, ms, batch) == [l |-> l, ms |-> ms, wb |-> batch]

\* the return of a call with error e
Return(l, e) ==
    [NoMsCall EXCEPT !.op = l.op, !.err = e, !.n = l.n]

\* the statements after "first, err := ms.FirstIndex()" in the caller
AfterFirstIndex(l) ==
    IF l.op = "FirstIndex" \/ l.err # "nil" THEN Return(l, l.err)
    ELSE IF l.op = "Append"
    THEN IF l.es[1].Index + Len(l.es) - 1 < l.first
         THEN [l EXCEPT !.pc = "commit"]
         ELSE [l EXCEPT !.pc = "lastIndexCached",
                        !.es = IF l.first > l.es[1].Index
                               THEN SubSeq(l.es, l.first - l.es[1].Index + 1, Len(l.es))
                               ELSE l.es]
    ELSE IF l.op = "Compact"
    THEN IF l.c <= l.first - 1 THEN Return(l, "ErrCompacted")
         ELSE [l EXCEPT !.pc = "lastIndexCached"]
    ELSE IF l.c < l.first THEN Return(l, "ErrSnapOutOfDate")
         ELSE [l EXCEPT !.pc = "seekEntry"]

\* the statements after "last, err := ms.LastIndex()" in the caller
AfterLastIndex(l) ==
    IF l.op = "LastIndex" \/ l.err # "nil" THEN Return(l, l.err)
    ELSE IF l.op = "Append" THEN [l EXCEPT !.pc = "writeEnts"]
    ELSE [l EXCEPT !.pc = "setCachedFirstIndex_0"]

\* FirstIndex(): firstIndexCached(), the seek, setCachedFirstIndex(index + 1)
FirstIndex_pc(l, ms, batch) ==
    IF l.pc = "firstIndexCached"
    THEN Bind(firstIndexCached(ms), LAMBDA index :
            IF index > 0
            THEN Shared(AfterFirstIndex([l EXCEPT !.first = index, !.err = "nil"]), ms, batch)
            ELSE Shared([l EXCEPT !.pc = "seekFirst"], ms, batch))
    ELSE IF l.pc = "seekFirst"
    THEN Bind(seekEntry(ms.db, 0, FALSE), LAMBDA r :
            IF r.err = "nil"
            THEN Shared([l EXCEPT !.idx = r.index, !.pc = "setCachedFirstIndex"], ms, batch)
            ELSE Shared(AfterFirstIndex([l EXCEPT !.first = r.index + 1, !.err = r.err]),
                        ms, batch))
    ELSE Shared(AfterFirstIndex([l EXCEPT !.first = l.idx + 1, !.err = "nil", !.idx = 0]),
                setCachedFirstIndex(ms, l.idx + 1), batch)

\* LastIndex(): lastIndexCached(), the seek, setCachedLastIndex(index)
LastIndex_pc(l, ms, batch) ==
    IF l.pc = "lastIndexCached"
    THEN Bind(lastIndexCached(ms), LAMBDA index :
            IF index > 0
            THEN Shared(AfterLastIndex([l EXCEPT !.last = index, !.err = "nil"]), ms, batch)
            ELSE Shared([l EXCEPT !.pc = "seekLast"], ms, batch))
    ELSE IF l.pc = "seekLast"
    THEN Bind(seekEntry(ms.db, mathMaxUint64, TRUE), LAMBDA r :
            IF r.err = "nil"
            THEN Shared([l EXCEPT !.idx = r.index, !.pc = "setCachedLastIndex"], ms, batch)
            ELSE Shared(AfterLastIndex([l EXCEPT !.last = r.index, !.err = r.err]), ms, batch))
    ELSE Shared(AfterLastIndex([l EXCEPT !.last = l.idx, !.err = "nil", !.idx = 0]),
                setCachedLastIndex(ms, l.idx), batch)

\* batch := ms.wb; batch.Clear()
Clear_pc(l, ms, batch, next) ==
    Shared([l EXCEPT !.pc = next, !.inBatch = TRUE, !.built = <<>>], ms, <<>>)

\* return ms.commitBatch(batch)
commitBatch_pc(l, ms, batch) ==
    Shared(Return(l, "nil"), [ms EXCEPT !.db = commitBatch(ms.db, batch)], batch)

\* Append and addEntries: Clear, FirstIndex, LastIndex, writeEnts,
\* setCachedLastIndex(laste), deleteFrom, commitBatch
Append_pc(l, ms, batch) ==
    IF l.pc = "Clear"
    THEN Clear_pc(l, ms, batch, IF Len(l.es) = 0 THEN "commit" ELSE "firstIndexCached")
    ELSE IF l.pc = "writeEnts"
    THEN Bind(writeEnts(ms.db, batch, l.es), LAMBDA w :
            Shared([l EXCEPT !.pc = "setCachedLastIndex_laste",
                             !.built = writeEnts(ms.db, l.built, l.es).batch],
                   [ms EXCEPT !.db = w.db], w.batch))
    ELSE IF l.pc = "setCachedLastIndex_laste"
    THEN Bind(l.es[Len(l.es)].Index, LAMBDA laste :
            Shared([l EXCEPT !.pc = IF laste < l.last THEN "deleteFrom" ELSE "commit"],
                   setCachedLastIndex(ms, laste), batch))
    ELSE IF l.pc = "deleteFrom"
    THEN Bind(l.es[Len(l.es)].Index, LAMBDA laste :
            Shared([l EXCEPT !.pc = "commit", !.built = deleteFrom(l.built, laste + 1)],
                   ms, deleteFrom(batch, laste + 1)))
    ELSE commitBatch_pc(l, ms, batch)

\* Compact after FirstIndex and LastIndex: setCachedFirstIndex(0), Clear,
\* deleteUntil, commitBatch
Compact_pc(l, ms, batch) ==
    IF l.pc = "setCachedFirstIndex_0"
    THEN Shared([l EXCEPT !.pc = "Clear"], setCachedFirstIndex(ms, 0), batch)
    ELSE IF l.pc = "Clear" THEN Clear_pc(l, ms, batch, "deleteUntil")
    ELSE IF l.pc = "deleteUntil"
    THEN Shared([l EXCEPT !.pc = "commit", !.built = deleteUntil(l.built, l.c)],
                ms, deleteUntil(batch, l.c))
    ELSE commitBatch_pc(l, ms, batch)

\* ApplySnapshot: the section under the mutex, Clear, Put, commitBatch
ApplySnapshot_pc(l, ms, batch) ==
    IF l.pc = "Lock"
    THEN IF ms.snapshot.Index >= l.snap.Index
         THEN Shared(Return(l, "ErrSnapOutOfDate"), ms, batch)
         ELSE Shared([l EXCEPT !.pc = "Clear"],
                     setCachedLastIndex([ms EXCEPT !.snapshot = l.snap, !.firstIndex = 0], 0),
                     batch)
    ELSE IF l.pc = "Clear" THEN Clear_pc(l, ms, batch, "Put")
    ELSE IF l.pc = "Put"
    THEN Bind(BatchPut(entryKey(l.snap.Index), [Index |-> l.snap.Index, Term |-> l.snap.Term]),
              LAMBDA put :
                 Shared([l EXCEPT !.pc = "commit", !.built = Append(l.built, put)],
                        ms, Append(batch, put)))
    ELSE commitBatch_pc(l, ms, batch)

\* CreateSnapshot after FirstIndex: the seek of the entry i, the section under
\* the mutex
CreateSnapshot_pc(l, ms, batch) ==
    IF l.pc = "seekEntry"
    THEN Bind(seekEntry(ms.db, l.c, FALSE), LAMBDA r :
            IF r.err # "nil" THEN Shared(Return(l, r.err), ms, batch)
            ELSE IF r.e.Index # l.c THEN Shared(Return(l, "errNotFound"), ms, batch)
            ELSE Shared([l EXCEPT !.pc = "Lock", !.term = r.e.Term], ms, batch))
    ELSE Bind([Index |-> l.c, Term |-> l.term,
               ConfState |-> IF l.snap.ConfState # NilConfState THEN l.snap.ConfState
                             ELSE ms.snapshot.ConfState,
               Data |-> l.snap.Data], LAMBDA sp :
            Shared(Return(l, "nil"),
                   setCachedLastIndex([ms EXCEPT !.snapshot = sp, !.firstIndex = 0], 0),
                   batch))

\* goroutine g takes the step r
Takes(g, r) ==
    /\ msCalls' = [msCalls EXCEPT ![g] = r.l]
    /\ wb' = r.wb
    /\ db' = r.ms.db
    /\ snapshot' = r.ms.snapshot
    /\ firstIndex' = r.ms.firstIndex
    /\ lastIndex' = r.ms.lastIndex
    /\ UNCHANGED <<call, snapFrom, lockVars, kvVars, pe, peCalls>>

\* goroutine g calls a method: app Append, with entries raft may hand it; raft
\* the others, Compact never past the last index
Go(g) ==
    /\ msCalls[g].pc = "idle" /\ msCalls[g].n < MaxCalls
    /\ \E l \in
          IF g = "app"
          THEN {[NoMsCall EXCEPT !.op = "Append", !.pc = "Clear", !.es = BatchAt(e0, terms)] :
                   <<e0, terms>> \in
                      {x \in (1..MaxIndex) \X Batches :
                          /\ x[1] + Len(x[2]) - 1 <= MaxIndex
                          /\ x[1] <= seekEntry(db, mathMaxUint64, TRUE).index + 1}}
          ELSE {[NoMsCall EXCEPT !.op = "FirstIndex", !.pc = "firstIndexCached"],
                [NoMsCall EXCEPT !.op = "LastIndex", !.pc = "lastIndexCached"]}
               \cup {[NoMsCall EXCEPT !.op = "Compact", !.pc = "firstIndexCached", !.c = c] :
                        c \in {x \in 1..MaxIndex :
                                  x <= seekEntry(db, mathMaxUint64, TRUE).index}}
               \cup {[NoMsCall EXCEPT !.op = "CreateSnapshot", !.pc = "firstIndexCached",
                                      !.c = i,
                                      !.snap = [EmptySnap EXCEPT !.ConfState = "cs1",
                                                                 !.Data = "d1"]] :
                        i \in 1..MaxIndex}
               \cup {[NoMsCall EXCEPT !.op = "ApplySnapshot", !.pc = "Lock",
                                      !.snap = [Index |-> i, Term |-> t,
                                                ConfState |-> "cs1", Data |-> "d1"]] :
                        i \in 1..MaxIndex, t \in 1..MaxTerm} :
          Takes(g, Shared([l EXCEPT !.n = msCalls[g].n + 1], MS, wb))

FirstIndex_step(g) ==
    /\ msCalls[g].pc \in {"firstIndexCached", "seekFirst", "setCachedFirstIndex"}
    /\ \E r \in {FirstIndex_pc(msCalls[g], MS, wb)} : Takes(g, r)

LastIndex_step(g) ==
    /\ msCalls[g].pc \in {"lastIndexCached", "seekLast", "setCachedLastIndex"}
    /\ \E r \in {LastIndex_pc(msCalls[g], MS, wb)} : Takes(g, r)

Append_step(g) ==
    /\ msCalls[g].op = "Append"
    /\ msCalls[g].pc \in {"Clear", "writeEnts", "setCachedLastIndex_laste", "deleteFrom",
                          "commit"}
    /\ \E r \in {Append_pc(msCalls[g], MS, wb)} : Takes(g, r)

Compact_step(g) ==
    /\ msCalls[g].op = "Compact"
    /\ msCalls[g].pc \in {"setCachedFirstIndex_0", "Clear", "deleteUntil", "commit"}
    /\ \E r \in {Compact_pc(msCalls[g], MS, wb)} : Takes(g, r)

ApplySnapshot_step(g) ==
    /\ msCalls[g].op = "ApplySnapshot"
    /\ msCalls[g].pc \in {"Lock", "Clear", "Put", "commit"}
    /\ \E r \in {ApplySnapshot_pc(msCalls[g], MS, wb)} : Takes(g, r)

CreateSnapshot_step(g) ==
    /\ msCalls[g].op = "CreateSnapshot"
    /\ msCalls[g].pc \in {"seekEntry", "Lock"}
    /\ \E r \in {CreateSnapshot_pc(msCalls[g], MS, wb)} : Takes(g, r)

NextRace ==
    \E g \in Goroutines :
        \/ Go(g)
        \/ FirstIndex_step(g)
        \/ LastIndex_step(g)
        \/ Append_step(g)
        \/ Compact_step(g)
        \/ ApplySnapshot_step(g)
        \/ CreateSnapshot_step(g)

\* a new store that no call has been made on, new EtcdLock instances, and
\* new nodes with nothing committed
Init(cs) ==
    /\ db = NewRocksStorage.db
    /\ snapshot = NewRocksStorage.snapshot
    /\ firstIndex = NewRocksStorage.firstIndex
    /\ lastIndex = NewRocksStorage.lastIndex
    /\ call = NoCall
    /\ snapFrom = "none"
    /\ events = <<>>
    /\ lock = [i \in Instances |-> NewMaster]
    /\ callers = cs
    /\ alive = [i \in Instances |-> TRUE]
    /\ hist = NoHist
    /\ committed = <<>>
    /\ kvnode = [n \in Nodes |-> NewKVNode]
    /\ clock = [n \in Nodes |-> 0]
    /\ reqs = <<>>
    /\ pe = NewPebbleEng
    /\ peCalls = [t \in Owners \cup Readers |-> NoRead]
    /\ wb = <<>>
    /\ msCalls = [g \in Goroutines |-> NoMsCall]

\* one thread calls Stop on n1, none on n2
OneCaller ==
    [i \in Instances |-> [c \in Callers |-> IF i = "n1" /\ c = "c1" THEN "idle" ELSE "absent"]]

\* two threads call Stop on n1, none on n2
TwoCallers == [i \in Instances |-> [c \in Callers |-> IF i = "n1" THEN "idle" ELSE "absent"]]

\* nobody calls Stop
NoCaller == [i \in Instances |-> [c \in Callers |-> "absent"]]

----------------------------------------------------------------------------
SpecLog == Init(OneCaller) /\ [][NextLog]_vars

\* the calls on one storage, and the reopening of its data directory
NextOpen ==
    \/ NextLog
    \/ DoReopen

SpecOpen == Init(OneCaller) /\ [][NextOpen]_vars

\* the calls on one storage whose engine may refuse the commit of an Append
NextIoError ==
    \/ NextLog
    \/ DoAppendFailed

SpecIoError == Init(OneCaller) /\ [][NextIoError]_vars

\* the calls on one storage, with Compact called beyond LastIndex() too
NextBeyond ==
    \/ NextLog
    \/ DoCompactBeyond

SpecBeyond == Init(OneCaller) /\ [][NextBeyond]_vars

SpecRace == Init(NoCaller) /\ [][NextRace]_vars

SpecLease == Init(OneCaller) /\ [][NextLock]_vars

SpecStop == Init(TwoCallers) /\ [][NextLock]_vars

SpecRestart == Init(OneCaller) /\ [][NextRestart]_vars

SpecStopLive == Init(OneCaller) /\ [][NextStopLive]_vars /\ FairStopLive

SpecStartStopLease == Init(OneCaller) /\ [][NextStartStopLease]_vars

SpecStartStop == Init(OneCaller) /\ [][NextStartStop]_vars /\ FairStartStop

SpecPanic == Init(NoCaller) /\ [][NextPanic]_vars

SpecApply == Init(NoCaller) /\ [][NextApply]_vars

SpecSetnx == Init(NoCaller) /\ [][NextSetnx]_vars

SpecPropose == Init(NoCaller) /\ [][NextPropose]_vars

SpecSet == Init(NoCaller) /\ [][NextSet]_vars

SpecEngine == Init(NoCaller) /\ [][NextEngine]_vars

SpecEngineOps == Init(NoCaller) /\ [][NextEngineOps]_vars

SpecLive == Init(NoCaller) /\ [][NextLive]_vars /\ FairLive


----------------------------------------------------------------------------
(***************************************************************************)
(* Properties of the log store (specification SpecLog).                    *)
(***************************************************************************)
\* The indexes of the stored keys.
StoredIndexes == {parseIndex(k) : k \in DOMAIN db}

\* C2 (as stated): after a successful Append(es) with es[0].index = e0,
\* Entries(e0, LastIndex()+1) returns exactly es, LastIndex() is the index of
\* the last element of es and no entry is stored above it.
C2_AppendOverwrite_Stated ==
    (call.op = "Append" /\ call.err = "nil") =>
        \E l \in {LastIndex(MS)} :
            \E r \in {Entries(MS, call.es[1].Index, l.val + 1, mathMaxUint64)} :
                /\ l.err = "nil"
                /\ l.val = call.es[Len(call.es)].Index
                /\ r.err = "nil"
                /\ r.es = call.es
                /\ \A i \in StoredIndexes : i <= l.val

\* C2 (amended): after a successful Append(es) with es[0].index = e0 and
\* e0 >= FirstIndex(), Entries(e0, LastIndex()+1) returns exactly es,
\* LastIndex() is the index of the last element of es and no entry is stored
\* above it.
C2_AppendOverwrite ==
    (call.op = "Append" /\ call.err = "nil" /\ call.es[1].Index >= FirstIndex(MS).val) =>
        \E l \in {LastIndex(MS)} :
            \E r \in {Entries(MS, call.es[1].Index, l.val + 1, mathMaxUint64)} :
                /\ l.err = "nil"
                /\ l.val = call.es[Len(call.es)].Index
                /\ r.err = "nil"
                /\ r.es = call.es
                /\ \A i \in StoredIndexes : i <= l.val

\* A successful Append that starts at or above FirstIndex(), on a store whose
\* FirstIndex() a snapshot has raised.
C2_Witness ==
    /\ call.op = "Append" /\ call.err = "nil"
    /\ call.es[1].Index >= FirstIndex(MS).val
    /\ ~IsEmptySnap(snapshot)

\* C3 (as stated): while the current snapshot s is one installed by an
\* accepted ApplySnapshot(s), whatever Append and Compact calls followed,
\* Term(s.index) returns s.term and Entries(lo, hi) with lo < s.index fails
\* with Compacted and returns no entries; right after ApplySnapshot(s) and
\* Compact(s.index), FirstIndex() = s.index + 1.
C3_SnapshotAnchor_Stated ==
    snapFrom = "ApplySnapshot" =>
        /\ \E t \in {Term(MS, snapshot.Index)} : t.err = "nil" /\ t.val = snapshot.Term
        /\ FirstIndex(MS).val = snapshot.Index + 1
        /\ \A lo \in 0..(snapshot.Index - 1) : \A hi \in 0..(MaxIndex + 2) :
                \E r \in {Entries(MS, lo, hi, mathMaxUint64)} :
                    r.err = "ErrCompacted" /\ r.es = <<>>

\* C4 (as stated): across every Append, Compact and ApplySnapshot call,
\* FirstIndex() <= LastIndex()+1 holds after the call and FirstIndex() is not
\* smaller than before the call.
C4_MonotoneIndices_Stated ==
    [][call'.op \in {"Append", "Compact", "ApplySnapshot"} =>
          /\ FirstIndex(MS').val <= LastIndex(MS').val + 1
          /\ FirstIndex(MS').val >= FirstIndex(MS).val]_vars

\* C4 (amended): after every call FirstIndex() <= LastIndex()+1; FirstIndex()
\* is not smaller after an Append or a Compact than before it (no call but an
\* accepted ApplySnapshot lowers it), and an accepted ApplySnapshot(s) sets
\* FirstIndex() to s.index + 1, whatever it was before.
C4_MonotoneIndices ==
    [][/\ FirstIndex(MS').val <= LastIndex(MS').val + 1
       /\ IF call'.op = "ApplySnapshot" /\ call'.err = "nil"
          THEN FirstIndex(MS').val = snapshot'.Index + 1
          ELSE FirstIndex(MS').val >= FirstIndex(MS).val]_vars

\* An accepted ApplySnapshot below the end of the log of a store that had
\* entries appended.
C4_Witness ==
    /\ call.op = "ApplySnapshot" /\ call.err = "nil"
    /\ snapFrom = "ApplySnapshot"
    /\ LastIndex(MS).val > snapshot.Index

C6_EntriesRangeErrors ==
    \E f \in {FirstIndex(MS)} : \E l \in {LastIndex(MS)} :
        /\ f.err = "nil" /\ l.err = "nil"
        /\ \A lo \in 0..(MaxIndex + 1) : \A hi \in 0..(MaxIndex + 2) : \A max \in SizeLimits :
            \E r \in {Entries(MS, lo, hi, max)} :
                /\ r.err = (IF lo < f.val THEN "ErrCompacted"
                            ELSE IF hi > l.val + 1 THEN "ErrUnavailable"
                            ELSE "nil")
                /\ r.err # "nil" =>
                    /\ r.es = <<>>
                    /\ r.ms.db = db
                    /\ r.ms.snapshot = snapshot
                    /\ FirstIndex(r.ms).val = f.val
                    /\ LastIndex(r.ms).val = l.val

\* A state left by an Entries call that failed with Compacted on a store
\* whose FirstIndex() a compaction or a snapshot has raised.
C6_Witness ==
    /\ call.op = "Entries" /\ call.err = "ErrCompacted"
    /\ FirstIndex(MS).val > 1
    /\ FirstIndex(MS).val <= LastIndex(MS).val

\* The indexes of the keys stored in d.
IndexesOf(d) == {parseIndex(k) : k \in DOMAIN d}

\* C15 (as stated): an accepted Compact(c), FirstIndex() <= c <= LastIndex(),
\* deletes every entry with index < c, and FirstIndex() returns c afterwards.
C15_Compact_Stated ==
    \E f \in {FirstIndex(MS)} : \E l \in {LastIndex(MS)} :
        \A c \in f.val..l.val :
            \E r \in {Compact(MS, c)} :
                /\ r.err = "nil"
                /\ \A i \in IndexesOf(r.ms.db) : i >= c
                /\ FirstIndex(r.ms).val = c

\* C15 (amended): Compact(c) is accepted exactly when c >= FirstIndex(); it
\* deletes the entries with index < c and no other, so the entry at c stays as
\* the new anchor, and leaves the snapshot and LastIndex() alone.  Afterwards
\* FirstIndex() returns c + 1 while no snapshot is installed, and
\* snapshot.index + 1 as before once one is.
C15_Compact ==
    \E f \in {FirstIndex(MS)} : \E l \in {LastIndex(MS)} :
        \A c \in 0..l.val :
            \E r \in {Compact(MS, c)} :
                IF c < f.val
                THEN r.err = "ErrCompacted" /\ r.ms.db = db /\ FirstIndex(r.ms).val = f.val
                ELSE /\ r.err = "nil"
                     /\ r.ms.db = [k \in {k \in DOMAIN db : parseIndex(k) >= c} |-> db[k]]
                     /\ r.ms.snapshot = snapshot
                     /\ LastIndex(r.ms).val = l.val
                     /\ FirstIndex(r.ms).val =
                            (IF IsEmptySnap(snapshot) THEN c + 1 ELSE snapshot.Index + 1)

\* A store without a snapshot right after an accepted Compact that deleted
\* the dummy entry and left entries above the new anchor.
C15_Witness ==
    /\ call.op = "Compact" /\ call.err = "nil"
    /\ IsEmptySnap(snapshot)
    /\ 0 \notin StoredIndexes
    /\ Cardinality(StoredIndexes) >= 2

\* The snapshots ApplySnapshot is given.
SnapInputs ==
    {[Index |-> i, Term |-> t, ConfState |-> cs, Data |-> data] :
        i \in 1..MaxIndex, t \in 1..MaxTerm, cs \in ConfStates, data \in SnapDatas}

\* C16: after an accepted ApplySnapshot(s), whatever the log held before,
\* FirstIndex() is s.index+1, LastIndex() is at least s.index, Snapshot()
\* returns s, and the entry {s.index, s.term} is stored at the key of s.index.
C16_ApplySnapshot ==
    \A s \in SnapInputs :
        \E r \in {ApplySnapshot(MS, s)} :
            r.err = "nil" =>
                /\ FirstIndex(r.ms).err = "nil" /\ FirstIndex(r.ms).val = s.Index + 1
                /\ LastIndex(r.ms).err = "nil" /\ LastIndex(r.ms).val >= s.Index
                /\ Snapshot(r.ms) = s
                /\ entryKey(s.Index) \in DOMAIN r.ms.db
                /\ r.ms.db[entryKey(s.Index)] = [Index |-> s.Index, Term |-> s.Term]

\* An ApplySnapshot was accepted over a log that held an entry of another
\* term at the index of the snapshot, and entries above it.
C16_Witness ==
    /\ call.op = "ApplySnapshot" /\ call.err = "nil"
    /\ snapshot.Index = 1
    /\ Cardinality(StoredIndexes) >= 3
    /\ db[entryKey(1)].Term = snapshot.Term
    /\ db[entryKey(2)].Term < snapshot.Term

\* C17: ApplySnapshot(s) with s.index at or below the index of the current
\* snapshot returns ErrSnapOutOfDate and leaves the snapshot, the two index
\* caches and the stored entries as they were; with a greater s.index it is
\* accepted.
C17_SnapOutOfDate ==
    \A s \in SnapInputs :
        \E r \in {ApplySnapshot(MS, s)} :
            IF s.Index <= snapshot.Index
            THEN r.err = "ErrSnapOutOfDate" /\ r.ms = MS
            ELSE r.err = "nil"

\* An ApplySnapshot was turned down at the index of the current snapshot.
C17_Witness ==
    /\ call.op = "ApplySnapshot" /\ call.err = "ErrSnapOutOfDate"
    /\ ~IsEmptySnap(snapshot)
    /\ lastIndex # 0
    /\ Cardinality(StoredIndexes) >= 2

\* C18 (as stated): in every state reached through Append, Compact,
\* ApplySnapshot and CreateSnapshot, Term(idx) returns ErrCompacted when
\* idx < FirstIndex()-1, ErrUnavailable when idx > LastIndex(), and for every
\* idx from FirstIndex()-1 to LastIndex() returns without error the term of the
\* entry stored at idx.
C18_Term_Stated ==
    \E f \in {FirstIndex(MS)} : \E l \in {LastIndex(MS)} :
        \A idx \in 0..(MaxIndex + 1) :
            \E t \in {Term(MS, idx)} :
                IF idx < f.val - 1 THEN t.err = "ErrCompacted"
                ELSE IF idx > l.val THEN t.err = "ErrUnavailable"
                ELSE /\ t.err = "nil"
                     /\ entryKey(idx) \in DOMAIN db
                     /\ t.val = db[entryKey(idx)].Term

\* C19: CreateSnapshot(i, cs, data) returns ErrSnapOutOfDate when
\* i < FirstIndex(), else errNotFound when no entry is stored at index i, and
\* both errors leave the current snapshot as it was; otherwise it returns,
\* and Snapshot() afterwards returns, a snapshot with index i, the term of the
\* stored entry i, the given data and (when cs is not nil) the given conf
\* state, and no entry is deleted.
C19_CreateSnapshot ==
    \E f \in {FirstIndex(MS)} :
        \A i \in 0..(MaxIndex + 1) : \A cs \in ConfStates \cup {NilConfState} :
            \A data \in SnapDatas :
                \E r \in {CreateSnapshot(MS, i, cs, data)} :
                    IF i < f.val
                    THEN r.err = "ErrSnapOutOfDate" /\ Snapshot(r.ms) = snapshot
                    ELSE IF entryKey(i) \notin DOMAIN db
                    THEN r.err = "errNotFound" /\ Snapshot(r.ms) = snapshot
                    ELSE /\ r.err = "nil"
                         /\ r.snap.Index = i
                         /\ r.snap.Term = db[entryKey(i)].Term
                         /\ r.snap.Data = data
                         /\ cs # NilConfState => r.snap.ConfState = cs
                         /\ Snapshot(r.ms) = r.snap
                         /\ r.ms.db = db

\* A CreateSnapshot at index 2 went through and left its data and a conf
\* state in the current snapshot, with at least two entries stored.
C19_Witness ==
    /\ call.op = "CreateSnapshot" /\ call.err = "nil"
    /\ snapFrom = "CreateSnapshot"
    /\ snapshot.Index = 2 /\ snapshot.Data = "d2" /\ snapshot.ConfState = "cs1"
    /\ Cardinality(StoredIndexes) >= 2

----------------------------------------------------------------------------
(***************************************************************************)
(* EtcdLock properties                                                     *)
(***************************************************************************)
Holding(i) == lock[i].ifHolding

\* the acquire loops of the instance wait in a watch that has nothing to
\* deliver, or do not run
CaughtUp(i) ==
    \A l \in 1..MaxLoops :
       \E a \in {lock[i].acquire[l]} :
          \/ a.pc = "none"
          \/ a.pc = "Watch" /\ ~a.canceled /\ ~EtcdWatchReady(Max(a.rsp.mi, a.rsp.idx))

\* the indexes at which the key was created: the epochs of the key
CreateIndexes ==
    {k \in 1..Len(events) : events[k] # "" /\ (k = 1 \/ events[k - 1] = "")}

\* the MASTER_ADD events issued for the epoch that began at k
AddsOf(k) ==
    {a \in hist.adds : k <= a.idx /\ \A m \in k..a.idx : events[m] # ""}

\* the creator of epoch k has handled the response of its Create
Handled(k) == lock[events[k]].modifiedIndex >= k

\* a value is put on the events channel of i in this step
Emits(i) == Len(lock'[i].eventsChan) > Len(lock[i].eventsChan)

AcquiredAbove(i, idx) == \E a \in hist.adds : a.id = i /\ a.idx > idx

\* a live instance other than d is started
Survivor(d) == \E j \in Instances \ {d} : alive[j] /\ lock[j].enable

\* one live instance is Holding and has emitted MASTER_ADD with an index above d's
FailedOver(d) ==
    \E i \in Instances :
       /\ alive[i] /\ Holding(i) /\ AcquiredAbove(i, lock[d].modifiedIndex)
       /\ \A j \in Instances \ {i} : alive[j] => ~Holding(j)

\* C9: after the process of the holder died, with another started instance
\* alive, eventually exactly one live instance is Holding and has emitted
\* MASTER_ADD with a modified index above the dead holder's.
C9_Failover ==
    \A d \in Instances : (~alive[d] /\ Survivor(d)) ~> FailedOver(d)

InStopAcquire(i, l) ==
    lock[i].acquire[l].pc \in {"Delete", "ifHolding", "stopRefresh", "stopped"}

C21_WitnessNotHolding ==
    \E i \in Instances :
       /\ hist.stopped[i] = "waited" /\ ~hist.released[i]
       /\ KeyPresent /\ KeyValue # i

\* instance i puts a MASTER_ADD or a MASTER_MODIFY event on its events channel
SendsIndex(i) ==
    /\ Len(lock'[i].eventsChan) = Len(lock[i].eventsChan) + 1
    /\ lock'[i].eventsChan[Len(lock'[i].eventsChan)].Type \in {"MASTER_ADD", "MASTER_MODIFY"}

SentIndex(i) == lock'[i].eventsChan[Len(lock'[i].eventsChan)].ModifiedIndex

ErrorDelivered(i) ==
    \E k \in 1..Len(lock'[i].eventsChan) : lock'[i].eventsChan[k].Type = "MASTER_ERROR"

\* C20 (as stated): when acquire panics, the panic is recovered, a
\* MASTER_ERROR event is delivered on the events channel, and the loop of
\* Start calls acquire again, with ifHolding, master and modifiedIndex as they
\* were.
C20_PanicRecovered_Stated ==
    [][\A i \in Instances :
          hist.panics'[i] > hist.panics[i] =>
              /\ ErrorDelivered(i)
              /\ \E l \in 1..MaxLoops : lock'[i].acquire[l] = NewLoop
              /\ lock'[i].enable
              /\ lock'[i].ifHolding = lock[i].ifHolding
              /\ lock'[i].master = lock[i].master
              /\ lock'[i].modifiedIndex = lock[i].modifiedIndex]_vars


----------------------------------------------------------------------------
(***************************************************************************)
(* Properties of the key-value state machine.                              *)
(***************************************************************************)
Min(a, b) == IF a < b THEN a ELSE b

C13_SetnxContention ==
    \A x \in DOMAIN reqs :
        reqs[x].done =>
            /\ reqs[x].err = "nil"
            /\ reqs[x].rsp = Int64(IF reqs[x].idx = 1 THEN 1 ELSE 0)
            /\ KVGet(kvnode[reqs[x].node].store, Key_k) = Arg(committed[1].cmd, 2)

\* Three SETNX commands have been answered: the first committed, one
\* committed after it with another value, and one that was never proposed.
C13_Witness ==
    /\ Len(reqs) = 3 /\ \A x \in DOMAIN reqs : reqs[x].done
    /\ \E x \in DOMAIN reqs : reqs[x].idx = 1
    /\ \E x \in DOMAIN reqs : reqs[x].idx = 2 /\ Arg(reqs[x].cmd, 2) # Arg(committed[1].cmd, 2)
    /\ \E x \in DOMAIN reqs : reqs[x].idx = 0

CheckedFirst(x) == Arg(reqs[x].cmd, 0) \in {"setnx", "setifeq", "delifeq"}

\* C14 (as stated): the response to a SETNX, SETIFEQ or DELIFEQ command is
\* the response an applier gives the same command proposed and applied in
\* commit order, whatever other writers of the key do.
C14_PrecheckOnly_Stated ==
    \A x \in DOMAIN reqs :
        reqs[x].done /\ CheckedFirst(x) =>
            [rsp |-> reqs[x].rsp, err |-> reqs[x].err] = reqs[x].would

\* C14 (amended): the response to a SETNX, SETIFEQ or DELIFEQ command is the
\* response an applier gives the same command proposed and applied in commit
\* order, provided the node that takes the command has applied every
\* committed write of the key; while a committed write of the key is not
\* yet applied there, the handler may answer 0 where the applier answers 1.
C14_PrecheckOnly ==
    \A x \in DOMAIN reqs :
        reqs[x].done /\ CheckedFirst(x) =>
            \/ [rsp |-> reqs[x].rsp, err |-> reqs[x].err] = reqs[x].would
            \/ /\ reqs[x].lagging /\ reqs[x].idx = 0
               /\ reqs[x].rsp = Int64(0) /\ reqs[x].would.rsp = Int64(1)

\* A SETIFEQ was answered 0 by the handler of a node that had applied the
\* whole log, which held a write of the key by another command.
C14_Witness ==
    \E x \in DOMAIN reqs :
        /\ Arg(reqs[x].cmd, 0) = "setifeq"
        /\ reqs[x].done /\ reqs[x].idx = 0 /\ ~reqs[x].lagging
        /\ Len(committed) >= 1
        /\ kvnode[reqs[x].node].applied = Len(committed)

(***************************************************************************)
(* The options of SET.  A word of the list stands at an option place       *)
(* unless it is the seconds of an EX before it.                            *)
(***************************************************************************)
IsEX(w) == w \in {<<101, 120>>, <<69, 88>>, <<69, 120>>, <<101, 88>>}

IsNX(w) == w \in {<<110, 120>>, <<78, 88>>, <<78, 120>>, <<110, 88>>}

IsXX(w) == w \in {<<120, 120>>, <<88, 88>>, <<88, 120>>, <<120, 88>>}

OptionPlaces(opts) ==
    LET place[i \in 1..Len(opts)] ==
           IF i = 1 THEN TRUE ELSE ~(place[i - 1] /\ IsEX(opts[i - 1]))
    IN  {i \in 1..Len(opts) : place[i]}

\* a word made of decimal digits, and the number it writes
IsNumber(w) == w # <<>> /\ \A x \in 1..Len(w) : w[x] \in 48..57

RECURSIVE NumberOf(_)
NumberOf(w) == IF w = <<>> THEN 0 ELSE NumberOf(SubSeq(w, 1, Len(w) - 1)) * 10 + (w[Len(w)] - 48)

\* what is wrong with the option at place i
OptionError(opts, i) ==
    IF IsNX(opts[i]) \/ IsXX(opts[i])
    THEN (IF \E j \in OptionPlaces(opts) : j < i /\ (IsNX(opts[j]) \/ IsXX(opts[j]))
          THEN "ErrInvalidArgs" ELSE "nil")
    ELSE IF IsEX(opts[i])
    THEN (IF i = Len(opts) \/ ~IsNumber(opts[i + 1]) THEN "ErrInvalidArgs"
          ELSE IF NumberOf(opts[i + 1]) <= 0 THEN "ErrInvalidTTL"
          ELSE "nil")
    ELSE "ErrInvalidArgs"

BadPlaces(opts) == {i \in OptionPlaces(opts) : OptionError(opts, i) # "nil"}

EXPlaces(opts) == {i \in OptionPlaces(opts) : IsEX(opts[i])}

\* the result of an option list with nothing wrong in it
OptionsGiven(opts) ==
    [duration |-> IF EXPlaces(opts) = {} THEN 0
                  ELSE NumberOf(opts[(CHOOSE i \in EXPlaces(opts) :
                                         \A j \in EXPlaces(opts) : j <= i) + 1]),
     createOnly |-> \E i \in OptionPlaces(opts) : IsNX(opts[i]),
     updateOnly |-> \E i \in OptionPlaces(opts) : IsXX(opts[i]),
     err |-> "nil"]

\* the option lists of the SET commands that clients have sent
OptionsSent == {SubSeq(reqs[x].cmd, 4, Len(reqs[x].cmd)) : x \in DOMAIN reqs}

\* C22 as stated: InvalidArgs when NX and XX are both given or one of them
\* twice, when EX has no number after it, or when another word appears;
\* InvalidTTL when the seconds of an EX are <= 0; otherwise the duration and
\* the flags of the options given.
C22_SetOptions_Stated ==
    \A opts \in OptionsSent :
       \E r \in {getExNxXXArgs(opts)} :
          /\ (\E i \in BadPlaces(opts) : OptionError(opts, i) = "ErrInvalidArgs")
                => r.err = "ErrInvalidArgs"
          /\ (\E i \in BadPlaces(opts) : OptionError(opts, i) = "ErrInvalidTTL")
                => r.err = "ErrInvalidTTL"
          /\ BadPlaces(opts) = {} => r = OptionsGiven(opts)

\* C22, amended: the options are taken from the left, and the first option
\* with something wrong decides the error: InvalidArgs for NX or XX after an
\* NX or XX, for EX with no number after it and for any other word,
\* InvalidTTL for EX with seconds <= 0.  With nothing wrong, the result is the
\* duration of the last EX (0 without EX) and the flags of the options
\* given.  setCommand answers the error and proposes nothing.
C22_SetOptions ==
    \A x \in DOMAIN reqs :
       \E opts \in {SubSeq(reqs[x].cmd, 4, Len(reqs[x].cmd))} :
       \E r \in {getExNxXXArgs(opts)} :
          /\ BadPlaces(opts) # {} =>
                /\ r.err = OptionError(opts, CHOOSE i \in BadPlaces(opts) :
                                                 \A j \in BadPlaces(opts) : i <= j)
                /\ reqs[x].err = r.err /\ reqs[x].idx = 0
          /\ BadPlaces(opts) = {} =>
                /\ r = OptionsGiven(opts)
                /\ reqs[x].idx = 1

\* SET n:k a xx EX 2 was sent and proposed: all three kinds of option
C22_Witness ==
    \E x \in DOMAIN reqs :
       /\ reqs[x].cmd = <<"set", WithNamespace(Key_k), Str_a, Str_xx, Str_EX, Str_2>>
       /\ reqs[x].idx = 1 /\ reqs[x].done
       /\ getExNxXXArgs(<<Str_xx, Str_EX, Str_2>>) =
             [duration |-> 2, createOnly |-> FALSE, updateOnly |-> TRUE, err |-> "nil"]

(***************************************************************************)
(* Properties of PebbleEng (specification SpecEngine).                     *)
(***************************************************************************)
\* CloseEng has returned, and OpenEng has not been called since
CloseReturned ==
    \E t \in Owners : peCalls[t].op = "CloseEng" /\ peCalls[t].pc = "idle"

\* goroutine t is in a locked read, between RLock and RUnlock
Reading(t) == peCalls[t].pc \in {"IsClosed", "eng"}

\* C23: every locked read (GetBytes, MultiGetBytes, Exist, GetRef,
\* GetValueWithOp, Save) that returns once CloseEng has returned, and before
\* the engine is opened again, returns errDBEngClosed; while CloseEng holds
\* the lock no locked read is between its RLock and RUnlock, and a locked
\* read never touches an engine that is not open.
C23_ClosedReads ==
    [][/\ \A t \in Readers :
            /\ (CloseReturned /\ Reading(t) /\ ~Reading(t)') =>
                   peCalls'[t].ret = "errDBEngClosed"
            /\ Reading(t)' => pe'.rwmutex.writer # "held"
            /\ peCalls'[t].ret # "read of an engine not open"
       /\ pe'.rwmutex.writer = "held" => pe'.rwmutex.readers = {}]_vars

\* CloseEng has closed the engine and returned; r1 read a value before, and
\* has now been answered errDBEngClosed by MultiGetBytes, r2 by Save
C23_Witness ==
    /\ CloseReturned /\ pe.eng = "closed"
    /\ \E t \in Owners : peCalls[t].ret = "true"
    /\ peCalls["r1"] = [op |-> "MultiGetBytes", pc |-> "idle", left |-> MaxKeys,
                        ret |-> "errDBEngClosed", n |-> 2]
    /\ peCalls["r2"].op = "Save" /\ peCalls["r2"].ret = "errDBEngClosed"

(***************************************************************************)
(* Opening a store (specification SpecOpen).                               *)
(***************************************************************************)
\* C24: the store opened on an empty data directory holds exactly the dummy
\* entry {index 0, term 0}: NumEntries() = 1, FirstIndex() = 1, LastIndex() = 0
\* and Term(0) = 0 in the first state; opening a data directory that holds
\* entries leaves every stored key as it was.
C24_ColdStart ==
    /\ db = NewRocksStorageOn(<<>>).db
    /\ db = [k \in {entryKey(0)} |-> ZeroEntry]
    /\ NumEntries(MS) = 1
    /\ FirstIndex(MS).val = 1 /\ FirstIndex(MS).err = "nil"
    /\ LastIndex(MS).val = 0 /\ LastIndex(MS).err = "nil"
    /\ Term(MS, 0).val = 0 /\ Term(MS, 0).err = "nil"
    /\ [][(call'.op = "Open" /\ NumEntries(MS) > 0) => db' = db]_vars

\* a store that holds the entries 1 and 2 of term 2, and no entry 0, has been
\* opened again
C24_Witness ==
    /\ call.op = "Open"
    /\ NumEntries(MS) = 2
    /\ entryKey(1) \in DOMAIN db /\ db[entryKey(1)].Term = 2
    /\ entryKey(2) \in DOMAIN db
    /\ FirstIndex(MS).val = 2

(***************************************************************************)
(* A failed commit (SpecIoError), Compact after ApplySnapshot (SpecLog),   *)
(* Compact beyond the last index (SpecBeyond).                             *)
(***************************************************************************)
\* C28: when the commit of an Append fails, Append returns the error and
\* LastIndex() returns what it returned before the call.
C28_CacheAfterCommit_Stated ==
    [][(call'.op = "Append" /\ call'.err = "IoError") =>
          /\ LastIndex(MS)'.err = "nil"
          /\ LastIndex(MS)'.val = LastIndex(MS).val]_vars

\* C29: an accepted ApplySnapshot(s) deletes no entry; Compact(s.index), called
\* next, succeeds and leaves the entry at s.index as the lowest stored one.
C29_CompactAfterSnapshot_Stated ==
    [][(call'.op = "ApplySnapshot" /\ call'.err = "nil") =>
          /\ DOMAIN db \subseteq DOMAIN db'
          /\ \E r \in {Compact(MS, snapshot.Index)'} :
                /\ r.err = "nil"
                /\ entryKey(snapshot'.Index) \in DOMAIN r.ms.db
                /\ \A k \in DOMAIN r.ms.db : parseIndex(k) >= snapshot'.Index]_vars

\* C30: an entry key is always stored, and FirstIndex() and LastIndex() never
\* fail with errNotFound.
C30_NeverEmpty_Stated ==
    /\ NumEntries(MS) >= 1
    /\ FirstIndex(MS).err # "errNotFound"
    /\ LastIndex(MS).err # "errNotFound"

(***************************************************************************)
(* RocksStorage on two goroutines (specification SpecRace).                *)
(***************************************************************************)
\* goroutine g takes a step of its call on the batch: Clear, a Put or a
\* DeleteRange, the commit
BatchStep(g) ==
    /\ msCalls[g].pc \in {"Clear", "writeEnts", "deleteFrom", "deleteUntil", "Put", "commit"}
    /\ msCalls'[g] # msCalls[g]

\* C25: no call clears, extends or commits the batch while a call of another
\* goroutine is between its Clear and its commit, and a call commits the
\* mutations it built itself.
C25_BatchExclusive_Stated ==
    [][\A g \in Goroutines :
          BatchStep(g) =>
             /\ \A h \in Goroutines \ {g} : ~msCalls[h].inBatch
             /\ msCalls[g].pc = "commit" => wb = msCalls[g].built]_vars

\* no Append, Compact, ApplySnapshot or CreateSnapshot is in progress
NoMutation ==
    \A g \in Goroutines :
        msCalls[g].pc = "idle" \/ msCalls[g].op \in {"FirstIndex", "LastIndex"}

\* C26: whenever no mutation is in progress the cached first index is 0 or the
\* first index derived from the stored keys, and the cached last index is 0 or
\* the highest stored index.
C26_CacheCoherence_Stated ==
    NoMutation =>
       /\ firstIndex = 0 \/ firstIndex = seekEntry(db, 0, FALSE).index + 1
       /\ lastIndex = 0 \/ lastIndex = seekEntry(db, mathMaxUint64, TRUE).index

\* goroutine g is in an accepted ApplySnapshot, after its section under the
\* mutex
InInstall(g) ==
    msCalls[g].op = "ApplySnapshot" /\ msCalls[g].pc \in {"Clear", "Put", "commit"}

\* the entry at the index of the snapshot is stored with the snapshot's term
AnchorStored ==
    /\ entryKey(snapshot.Index) \in DOMAIN db
    /\ db[entryKey(snapshot.Index)].Term = snapshot.Term

\* C27: a goroutine that reads the first index from the snapshot while
\* another goroutine installs that snapshot finds the anchor entry stored.
C27_InstallAtomic_Stated ==
    [][\A h \in Goroutines :
          (/\ msCalls[h].pc = "firstIndexCached"
           /\ msCalls'[h] # msCalls[h]
           /\ \E g \in Goroutines \ {h} : InInstall(g)) => AnchorStored]_vars

\* the acquire loop l of instance i takes the step that calls client.Delete
IssuesDelete(i, l) ==
    lock[i].acquire[l].pc = "Delete" /\ lock'[i].acquire[l].pc # "Delete"

\* C31: whenever stopAcquire issues the delete of the lock key, a key that is
\* present stores the id of the stopping instance: a stopping instance never
\* removes the lease of another node.
C31_StopDeletesOwn_Stated ==
    [][\A i \in Instances : \A l \in 1..MaxLoops :
          IssuesDelete(i, l) /\ KeyPresent => KeyValue = i]_vars

\* the acquire loops of the instance that run
ActiveLoops(i) == {l \in AcquireLoops : lock[i].acquire[l].pc # "none"}

\* C32: at most one acquire loop is active per EtcdLock instance at any time,
\* for every interleaving of Start and Stop calls issued from several
\* goroutines.
C32_OneAcquire_Stated ==
    \A i \in Instances : Cardinality(ActiveLoops(i)) <= 1

\* every Stop that has sent its stop signal is answered on the stopped channel
C32_StopAnswered ==
    \A i \in Instances : \A c \in Callers :
        callers[i][c] = "wait" ~> callers[i][c] = "idle"

\* C33: while an instance is Holding, the modified index it has recorded, which
\* its refresh passes to the next compare-and-swap, never moves back to an
\* older value: after a successful compare-and-swap it stays the index that
\* the compare-and-swap returned, whatever watch event arrives later.
C33_IndexNeverBack_Stated ==
    [][\A i \in Instances :
          Holding(i) /\ Holding(i)' => lock'[i].modifiedIndex >= lock[i].modifiedIndex]_vars

\* C34: every Stop call on a started instance eventually returns, whatever
\* the acquire loop is doing when Stop is called.
C34_StopTerminates_Stated ==
    \A i \in Instances : \A c \in Callers :
        callers[i][c] \in {"send", "wait"} ~> callers[i][c] = "idle"

\* the event that the step puts at the end of the events channel of i
Sent(i) == lock'[i].eventsChan[Len(lock'[i].eventsChan)]

\* C35: the events channel is first in, first out.  An instance that is
\* Holding and handles a response with another node's value sends
\* MASTER_DELETE and then MASTER_MODIFY with that value and its modified
\* index, in this order; one that is not Holding sends MASTER_MODIFY exactly
\* when the value differs from the master it has recorded, and sends nothing
\* when the value is the recorded master.
C35_EventOrder_Stated ==
    [][\A i \in Instances :
          /\ \/ lock'[i].eventsChan = lock[i].eventsChan
             \/ /\ lock[i].eventsChan # <<>>
                /\ lock'[i].eventsChan = Tail(lock[i].eventsChan)
             \/ /\ Emits(i)
                /\ lock'[i].eventsChan = Append(lock[i].eventsChan, Sent(i))
          /\ \A l \in AcquireLoops :
               \E a \in {lock[i].acquire[l]}, b \in {lock'[i].acquire[l]} :
                  /\ a.pc = "processEtcdRsp" /\ b.pc # a.pc /\ a.rsp.val # i =>
                        /\ ~Emits(i)
                        /\ b.pc = IF Holding(i) THEN "refreshStoppedChan"
                                  ELSE IF a.rsp.val # lock[i].master
                                       THEN "MASTER_MODIFY" ELSE "master"
                  /\ a.pc = "refreshStoppedChan" /\ b.pc # a.pc =>
                        ~Emits(i) /\ b.pc = "MASTER_DELETE"
                  /\ a.pc = "MASTER_DELETE" /\ b.pc # a.pc =>
                        /\ Emits(i) /\ Sent(i).Type = "MASTER_DELETE"
                        /\ b.pc = "MASTER_MODIFY"
                  /\ a.pc = "MASTER_MODIFY" /\ b.pc # a.pc =>
                        /\ Emits(i)
                        /\ Sent(i) = MasterEvent("MASTER_MODIFY", a.rsp.val, a.rsp.mi)
                        /\ b.pc = "master"]_vars

\* C36: the watch that follows a response resumes from the larger of the
\* response's modified index and cluster index, and misses no change of the
\* key that happens after the response: the change it delivers is the first
\* one after the state of the key that the response carried.
C36_WatchResume_Stated ==
    [][\A i \in Instances : \A l \in AcquireLoops :
          \E a \in {lock[i].acquire[l]}, b \in {lock'[i].acquire[l]} :
             a.pc = "Watch" /\ b.pc = "top" /\ ~b.err =>
                /\ b.rsp.mi > Max(a.rsp.mi, a.rsp.idx)
                /\ b.rsp.mi = a.rsp.mi + 1]_vars

\* C37: in the event stream of one instance, from a Start to the Stop that
\* ends it, MASTER_ADD and MASTER_DELETE alternate, MASTER_ADD first: no
\* MASTER_ADD is sent after a MASTER_ADD with no MASTER_DELETE between them, no
\* MASTER_DELETE is sent unless the last of the two was a MASTER_ADD, and
\* every MASTER_ADD carries the id of the instance as Master.
C37_AddDeleteAlternate_Stated ==
    [][\A i \in Instances :
          Emits(i) =>
             /\ Sent(i).Type = "MASTER_ADD" => ~hist.held[i] /\ Sent(i).Master = i
             /\ Sent(i).Type = "MASTER_DELETE" => hist.held[i]]_vars

\* an acquire loop of the instance is about to send the stop token of refresh
StopTokenDue(i) ==
    \E l \in AcquireLoops : lock[i].acquire[l].pc \in {"refreshStoppedChan", "stopRefresh"}

\* C38: at most one refresh loop is active per instance, and a refresh loop
\* is active only while the instance is Holding or while the stop token that
\* ends it is being sent or waits in the refresh-stop channel.
C38_OneRefresh_Stated ==
    \A i \in Instances :
        /\ lock[i].refresh <= 1
        /\ lock[i].refresh = 1 =>
              Holding(i) \/ StopTokenDue(i) \/ lock[i].refreshStoppedChan = 1

\* the encoded size of the entries stored at the indexes lo .. lo+n-1
RECURSIVE RunSize(_, _)
RunSize(lo, n) ==
    IF n = 0 THEN 0
    ELSE RunSize(lo, n - 1) +
         (IF entryKey(lo + n - 1) \in DOMAIN db THEN EntrySize(db[entryKey(lo + n - 1)]) ELSE 0)

\* the size limits of the reads, and the size of two entries
ReadLimits == SizeLimits \cup {2 * EntrySize(ZeroEntry)}

\* C39: whenever FirstIndex() and LastIndex() answer, for FirstIndex() <= lo <
\* hi <= LastIndex()+1 and every maxSize, Entries(lo, hi, maxSize) returns
\* without error a non-empty run of the entries lo, lo+1, ...: all of lo..hi-1
\* when their total size is at most maxSize, otherwise the longest prefix
\* whose total size is at most maxSize, or the entry lo alone when its size
\* exceeds maxSize.
C39_ReadProgress_Stated ==
    \E f \in {FirstIndex(MS)} : \E l \in {LastIndex(MS)} :
        f.err = "nil" /\ l.err = "nil" =>
           \A lo \in f.val..l.val : \A hi \in (lo + 1)..(l.val + 1) : \A max \in ReadLimits :
              \E r \in {Entries(MS, lo, hi, max)} : \E n \in {Len(r.es)} :
                 /\ r.err = "nil"
                 /\ n >= 1 /\ n <= hi - lo
                 /\ \A k \in 1..n : r.es[k].Index = lo + k - 1
                 /\ \A k \in 1..n :
                       entryKey(lo + k - 1) \in DOMAIN db /\ r.es[k] = db[entryKey(lo + k - 1)]
                 /\ n > 1 => RunSize(lo, n) <= max
                 /\ n < hi - lo => RunSize(lo, n + 1) > max

\* C40: no engine operation calls into the database after CloseEng has closed
\* it, in every interleaving of CloseEng and CloseAll with Write,
\* CompactRange, GetApproximateSizes, GetStatistics and the reads without the
\* lock, and concurrent CloseAll calls close the quit channel only once.
C40_NoUseAfterClose_Stated ==
    \A t \in Owners \cup Readers :
        peCalls[t].ret \notin {"use of a closed engine", "read of an engine not open",
                               "panic: close of closed channel"}

=============================================================================
